---- MODULE Spec2Model ----
(***************************************************************************)
(* A model of the chat relay's streaming-response assembler                *)
(* (streamCompletion and processCompletedResponse of the completion        *)
(* service), of its hashtag pipeline (hashtag-service.js, tag-utils.js)    *)
(* and of the tag bookkeeping of db.js.                                    *)
(*                                                                         *)
(* Text is modelled as a sequence of one-character strings.  The backend   *)
(* stream is a sequence of bytes; a data event delivers the next k bytes.  *)
(* The JSON records of the stream are written in a small grammar that      *)
(* keeps what the handler looks at:                                        *)
(*     {            opens a record          }   closes it                  *)
(*     a b          one-byte characters of the "response" text             *)
(*     L C          the lead and the continuation byte of one two-byte     *)
(*                  UTF-8 character of the "response" text (decoded: E)    *)
(*     !            "done": true (last field of the record)                *)
(*     \n           the record separator     (space)  white space          *)
(* ?  stands for U+FFFD, what the decoder yields for a byte sequence that  *)
(* is not a complete character.                                            *)
(***************************************************************************)
EXTENDS Integers, Sequences, FiniteSets, TLC

VARIABLES
    \* the backend stream (response.data) of one generation
    stream,         \* the bytes the backend sends
    pos,            \* how many of them data events have delivered
    streamState,    \* "open", "ended" or "errored"
    received,       \* the text the data handler was given so far (chunk.toString() of every event)
    \* the per-call state of streamCompletion
    buffer,         \* let buffer
    fullResponse,   \* let fullResponse
    chunkCount,     \* let chunkCount
    tasks,          \* the processCompletedResponse calls, in flight or finished
    emitted,        \* what the client socket was sent, in order
    contentExtracted,   \* let contentExtracted
    previews,       \* the axios.post calls to /api/extract-tags made while streaming
    \* tables
    blocked_tags,       \* the tag_name column
    tag_synonyms,       \* rows [original_tag, better_tag]
    tags,               \* tag_name -> usage_count
    user_messages,      \* rows [message_id, content, tags]
    ollama_responses,   \* rows [message_id, content, tags]
    message_log,        \* rows [message_id, origin, content, tags]
    \* the last list a pipeline entry point returned, with the blocked table
    \* it was called under
    returned,
    \* the request streamCompletion made to the completion backend
    request,        \* [state: "none", "sent" or "failed", prompt]
    \* concurrent operations (recordings of a use of one tag name, tag
    \* mutations of one message)
    ops,            \* per operation: which function it is and where it stands
    rowLock,        \* the transaction holding the lock of the tag's row (0: none)
    usedBefore,     \* the tag's usage_count before the operations (0: no row)
    sessions,       \* rows [id, client_info]
    gens            \* the per-call state of several streamCompletion calls on one socket

previewVars == <<contentExtracted, previews>>
streamVars == <<stream, pos, streamState, received, buffer, fullResponse,
                chunkCount, tasks, emitted, previewVars>>
tableVars == <<blocked_tags, tag_synonyms, tags, user_messages, ollama_responses,
               message_log>>
usageVars == <<ops, rowLock, usedBefore>>

vars == <<streamVars, tableVars, returned, usageVars, request, sessions, gens>>

----------------------------------------------------------------------------
(* Bounds *)

\* the number of newline-terminated records of a stream
MaxRecords == 3

\* the number of times the response of the turn is finalized
MaxResponses == 1

\* the number of concurrent operations on one tag name
MaxOps == 3

\* the number of messages saved with tags
MaxSaved == 2

----------------------------------------------------------------------------
(* Sequences *)

RECURSIVE Concat(_)
Concat(ss) == IF ss = <<>> THEN <<>> ELSE Head(ss) \o Concat(Tail(ss))

RECURSIVE SeqMap(_, _)
SeqMap(F(_), s) == IF s = <<>> THEN <<>> ELSE <<F(Head(s))>> \o SeqMap(F, Tail(s))

Count(s, P(_)) == Cardinality({i \in 1..Len(s) : P(s[i])})

----------------------------------------------------------------------------
(* Text *)

Newline == "\n"
WhiteSpace == {" ", Newline}
LeadByte == "L"
ContByte == "C"
Replacement == "?"
TextChars == {"a", "b", "E", Replacement}

\* chunk.toString(): UTF-8 decoding of the bytes of ONE data event.  A lead
\* byte followed by its continuation byte is one character; a lead byte
\* without it, or a continuation byte on its own, decodes to U+FFFD.
RECURSIVE Utf8Decode(_)
Utf8Decode(bytes) ==
    IF bytes = <<>> THEN <<>>
    ELSE IF bytes[1] = LeadByte /\ Len(bytes) >= 2 /\ bytes[2] = ContByte
         THEN <<"E">> \o Utf8Decode(SubSeq(bytes, 3, Len(bytes)))
    ELSE IF bytes[1] \in {LeadByte, ContByte}
         THEN <<Replacement>> \o Utf8Decode(Tail(bytes))
    ELSE <<bytes[1]>> \o Utf8Decode(Tail(bytes))

\* String.prototype.trim
RECURSIVE TrimStart(_)
TrimStart(s) ==
    IF s # <<>> /\ s[1] \in WhiteSpace THEN TrimStart(Tail(s)) ELSE s

RECURSIVE TrimEnd(_)
TrimEnd(s) ==
    IF s # <<>> /\ s[Len(s)] \in WhiteSpace
    THEN TrimEnd(SubSeq(s, 1, Len(s) - 1)) ELSE s

Trim(s) == TrimEnd(TrimStart(s))

\* JSON.parse(jsonStr) succeeds and yields an object
JsonBody(s) == SubSeq(s, 2, Len(s) - 1)

IsJson(s) ==
    /\ Len(s) >= 2
    /\ s[1] = "{"
    /\ s[Len(s)] = "}"
    /\ \A i \in 1..Len(JsonBody(s)) :
          \/ JsonBody(s)[i] \in TextChars
          \/ JsonBody(s)[i] = "!" /\ i = Len(JsonBody(s))

\* data.response ("" when the record has no text)
JsonResponse(s) == SelectSeq(JsonBody(s), LAMBDA c : c \in TextChars)

\* data.done
JsonDone(s) == JsonBody(s) # <<>> /\ JsonBody(s)[Len(JsonBody(s))] = "!"

----------------------------------------------------------------------------
(* Characters and strings of the hashtag pipeline *)

LowerLetters == <<"a", "b", "c", "d", "e", "f", "g", "h", "i", "j", "k", "l", "m",
                  "n", "o", "p", "q", "r", "s", "t", "u", "v", "w", "x", "y", "z">>
UpperLetters == <<"A", "B", "C", "D", "E", "F", "G", "H", "I", "J", "K", "L", "M",
                  "N", "O", "P", "Q", "R", "S", "T", "U", "V", "W", "X", "Y", "Z">>
Digits == {"0", "1", "2", "3", "4", "5", "6", "7", "8", "9"}

IsLower(c) == \E i \in DOMAIN LowerLetters : LowerLetters[i] = c
IsUpper(c) == \E i \in DOMAIN UpperLetters : UpperLetters[i] = c

\* String.prototype.toLowerCase
LowerChar(c) ==
    IF IsUpper(c)
    THEN LowerLetters[CHOOSE i \in DOMAIN UpperLetters : UpperLetters[i] = c]
    ELSE c

ToLowerCase(s) == [i \in 1..Len(s) |-> LowerChar(s[i])]

\* \w and [a-zA-Z0-9_-] and \s of the regular expressions
IsWordChar(c) == IsLower(c) \/ IsUpper(c) \/ c \in Digits \/ c = "_"
IsTagChar(c) == IsWordChar(c) \/ c = "-"
IsSpace(c) == c \in WhiteSpace

Hash == <<"#">>

\* s.startsWith('#')
StartsWithHash(s) == s # <<>> /\ s[1] = "#"

\* s.replace(/^#/, ''): ONE leading '#' goes
StripOneHash(s) == IF StartsWithHash(s) THEN Tail(s) ELSE s

\* s.replace(/^#+/, ''): every leading '#' goes
RECURSIVE StripHashes(_)
StripHashes(s) == IF StartsWithHash(s) THEN StripHashes(Tail(s)) ELSE s

\* a sequence without its repeated entries, first occurrences kept
RECURSIVE Unique(_)
Unique(s) ==
    IF s = <<>> THEN <<>>
    ELSE LET rest == Unique(SubSeq(s, 1, Len(s) - 1))
             last == s[Len(s)]
         IN  IF \E i \in 1..Len(rest) : rest[i] = last THEN rest
             ELSE Append(rest, last)

\* array.slice(0, n)
Slice(s, n) == SubSeq(s, 1, IF Len(s) < n THEN Len(s) ELSE n)

Range(s) == {s[i] : i \in 1..Len(s)}

----------------------------------------------------------------------------
(* hashtag-service.js: the exclusion filter *)

\* COMMON_WORDS_TO_EXCLUDE: the words of the list that the texts and tags of
\* this model can contain (no other word of them is on the list)
COMMON_WORDS_TO_EXCLUDE ==
    { <<"a">>, <<"a", "b", "o", "u", "t">>, <<"a", "n", "d">>, <<"m", "e">>,
      <<"t", "e", "l", "l">>, <<"t", "h", "e">>, <<"t", "r", "y">>,
      <<"u", "s", "e">>, <<"y", "o", "u">> }

shouldExcludeWord(word) ==
    LET lowerWord == Trim(ToLowerCase(word))
    IN  \/ lowerWord \in COMMON_WORDS_TO_EXCLUDE
        \/ Len(lowerWord) < 3
        \/ lowerWord # <<>> /\ \A i \in 1..Len(lowerWord) : lowerWord[i] \in Digits

----------------------------------------------------------------------------
(* hashtag-service.js: reading tags and keywords out of a text *)

\* the end of the run of characters satisfying P that starts at i (i - 1
\* when there is none)
RunEnd(P(_), text, i) ==
    IF i > Len(text) THEN i - 1
    ELSE (CHOOSE j \in i..(Len(text) + 1) :
              /\ j = Len(text) + 1 \/ ~P(text[j])
              /\ \A k \in i..(j - 1) : P(text[k])) - 1

\* text.match(/#([a-zA-Z0-9_-]+)/g), scanning from i
RECURSIVE MatchHashtags(_, _)
MatchHashtags(text, i) ==
    LET starts == {j \in i..Len(text) :
                      text[j] = "#" /\ RunEnd(IsTagChar, text, j + 1) > j}
    IN  IF starts = {} THEN <<>>
        ELSE LET s == CHOOSE j \in starts : \A k \in starts : j <= k
                 e == RunEnd(IsTagChar, text, s + 1)
             IN  <<SubSeq(text, s, e)>> \o MatchHashtags(text, e + 1)

\* extractHashtagsFromText: the first maxTags different matches
RECURSIVE TakeUnique(_, _, _)
TakeUnique(matches, acc, maxTags) ==
    IF matches = <<>> THEN acc
    ELSE TakeUnique(Tail(matches),
                    IF Len(acc) < maxTags /\ Head(matches) \notin Range(acc)
                    THEN Append(acc, Head(matches)) ELSE acc,
                    maxTags)

extractHashtagsFromText(text, maxTags) ==
    TakeUnique(MatchHashtags(text, 1), <<>>, maxTags)

\* the maximal runs of characters not satisfying Sep, from i on
RECURSIVE Tokens(_, _, _)
Tokens(Sep(_), text, i) ==
    LET s == RunEnd(Sep, text, i) + 1
    IN  IF s > Len(text) THEN <<>>
        ELSE LET e == RunEnd(LAMBDA c : ~Sep(c), text, s)
             IN  <<SubSeq(text, s, e)>> \o Tokens(Sep, text, e + 1)

\* extractKeywords: lower-case, punctuation to spaces, words of 3 and more
\* characters, the excluded ones dropped, by falling frequency (the sort is
\* stable: equally frequent words stay in order of first occurrence)
KeywordWords(text) ==
    SelectSeq(Tokens(LAMBDA c : ~IsWordChar(c), ToLowerCase(text), 1),
              LAMBDA w : Len(w) >= 3)

Frequency(words, w) == Cardinality({i \in 1..Len(words) : words[i] = w})

RECURSIVE SortByFrequency(_, _)
SortByFrequency(keys, words) ==
    IF keys = <<>> THEN <<>>
    ELSE LET best == CHOOSE i \in 1..Len(keys) :
                        /\ \A j \in 1..Len(keys) :
                              Frequency(words, keys[j]) <= Frequency(words, keys[i])
                        /\ \A j \in 1..(i - 1) :
                              Frequency(words, keys[j]) < Frequency(words, keys[i])
         IN  <<keys[best]>> \o
             SortByFrequency(SubSeq(keys, 1, best - 1) \o
                             SubSeq(keys, best + 1, Len(keys)), words)

extractKeywords(text) ==
    LET words == KeywordWords(text)
    IN  SortByFrequency(SelectSeq(Unique(words), LAMBDA w : ~shouldExcludeWord(w)),
                        words)

\* /#\s*HASHTAGS\s*:/i at position i: the index of the ':' (0: no match)
HASHTAGS == <<"h", "a", "s", "h", "t", "a", "g", "s">>

SectionMarkerAt(text, i) ==
    IF i > Len(text) \/ text[i] # "#" THEN 0
    ELSE LET w == RunEnd(IsSpace, text, i + 1) + 1
             c == RunEnd(IsSpace, text, w + Len(HASHTAGS)) + 1
         IN  IF /\ c <= Len(text)
                /\ ToLowerCase(SubSeq(text, w, w + Len(HASHTAGS) - 1)) = HASHTAGS
                /\ text[c] = ":"
             THEN c ELSE 0

\* ([^]*?)(?=\n\n|\n$|$) from i: the index after the captured section
RECURSIVE SectionEnd(_, _)
SectionEnd(text, i) ==
    IF \/ i > Len(text)
       \/ text[i] = Newline /\ i = Len(text)
       \/ text[i] = Newline /\ text[i + 1] = Newline
    THEN i
    ELSE SectionEnd(text, i + 1)

\* extractHashtagsFromResponse(response).hashtags
extractHashtagsFromResponse(response) ==
    LET starts == {i \in 1..Len(response) : SectionMarkerAt(response, i) > 0}
    IN  IF starts # {}
        THEN LET s == CHOOSE x \in starts : \A y \in starts : x <= y
                 from == SectionMarkerAt(response, s) + 1
                 hashtagSection == Trim(SubSeq(response, from,
                                               SectionEnd(response, from) - 1))
                 \* split(/,\s*|\s+/), the empty pieces dropped
                 hashtagList == Tokens(LAMBDA c : c = "," \/ IsSpace(c),
                                       hashtagSection, 1)
             IN  SeqMap(LAMBDA tag : IF StartsWithHash(tag) THEN tag
                                     ELSE Hash \o tag,
                        hashtagList)
        ELSE Unique(MatchHashtags(response, 1))

----------------------------------------------------------------------------
(* tag-utils.js: the resolver *)

\* the map step of originalProcessHashtags (tags are strings here)
NormalizeTag(tag) ==
    LET cleanTag == Trim(tag)
    IN  IF StartsWithHash(cleanTag) THEN cleanTag ELSE Hash \o cleanTag

NormalizeTags(hashtags) ==
    SelectSeq(SeqMap(NormalizeTag, hashtags), LAMBDA tag : Len(tag) > 1)

\* tag.replace(/^#/, '').trim().toLowerCase() of the resolver's loop
CleanTag(tag) == ToLowerCase(Trim(StripOneHash(tag)))

\* blockedTags and tagSynonyms as the resolver builds them from the rows
BlockedNames(blocked) == {ToLowerCase(name) : name \in blocked}

HasSynonym(synonyms, cleanTag) ==
    \E row \in synonyms :
        ToLowerCase(row.original_tag) = cleanTag /\ row.better_tag # <<>>

SynonymOf(synonyms, cleanTag) ==
    (CHOOSE row \in synonyms : ToLowerCase(row.original_tag) = cleanTag).better_tag

\* a loop that never looks at the tags it has already added
RECURSIVE ResolveLoopNoSeen(_, _, _, _)
ResolveLoopNoSeen(normalizedTags, processedTags, blocked, synonyms) ==
    IF normalizedTags = <<>> THEN processedTags
    ELSE LET cleanTag == CleanTag(Head(normalizedTags))
             bestTag == IF HasSynonym(synonyms, cleanTag)
                        THEN SynonymOf(synonyms, cleanTag) ELSE cleanTag
         IN  ResolveLoopNoSeen(Tail(normalizedTags),
                 IF cleanTag \in BlockedNames(blocked) THEN processedTags
                 ELSE Append(processedTags, Hash \o bestTag),
                 blocked, synonyms)

\* the for loop of originalProcessHashtags: processedTags (seenTags is the
\* set of its lower-cased entries)
RECURSIVE ResolveLoop(_, _, _, _)
ResolveLoop(normalizedTags, processedTags, blocked, synonyms) ==
    IF normalizedTags = <<>> THEN processedTags
    ELSE LET cleanTag == CleanTag(Head(normalizedTags))
             bestTag == IF HasSynonym(synonyms, cleanTag)
                        THEN SynonymOf(synonyms, cleanTag) ELSE cleanTag
             formattedTag == Hash \o bestTag
             seenTags == {ToLowerCase(t) : t \in Range(processedTags)}
         IN  ResolveLoop(Tail(normalizedTags),
                 IF cleanTag \in BlockedNames(blocked) THEN processedTags
                 ELSE IF ToLowerCase(formattedTag) \in seenTags THEN processedTags
                 ELSE Append(processedTags, formattedTag),
                 blocked, synonyms)

DefaultTag == <<"#", "c", "o", "n", "v", "e", "r", "s", "a", "t", "i", "o", "n">>

\* a resolver that filters and substitutes whether or not the queries succeed
originalProcessHashtagsNoCatch(hashtags, blocked, synonyms, dbOk) ==
    IF hashtags = <<>> THEN <<>>
    ELSE LET normalizedTags == NormalizeTags(hashtags)
             processedTags == ResolveLoop(normalizedTags, <<>>, blocked, synonyms)
         IN  IF processedTags = <<>> /\ normalizedTags # <<>>
             THEN <<DefaultTag>>
             ELSE processedTags

\* originalProcessHashtags; dbOk: the two queries succeed.  When one fails
\* the catch returns the candidates trimmed and prefixed.
originalProcessHashtags(hashtags, blocked, synonyms, dbOk) ==
    IF hashtags = <<>> THEN <<>>
    ELSE IF ~dbOk THEN NormalizeTags(hashtags)
    ELSE LET normalizedTags == NormalizeTags(hashtags)
             processedTags == ResolveLoop(normalizedTags, <<>>, blocked, synonyms)
         IN  IF processedTags = <<>> /\ normalizedTags # <<>>
             THEN <<DefaultTag>>
             ELSE processedTags

\* processHashtags: the wrapper, given an array
processHashtags(hashtags, blocked, synonyms, dbOk) ==
    originalProcessHashtags(hashtags, blocked, synonyms, dbOk)

----------------------------------------------------------------------------
(* hashtag-service.js: the entry points *)

\* filterBlockedTags; db.getBlockedTags() yields no rows when its query fails
filterBlockedTags(tagList, blocked, dbOk) ==
    LET blockedTagsRows == IF dbOk THEN blocked ELSE {}
    IN  IF tagList = <<>> THEN <<>>
        ELSE IF blockedTagsRows = {} THEN tagList
        ELSE SelectSeq(tagList, LAMBDA tag :
                 /\ tag # <<>>
                 /\ Len(Trim(ToLowerCase(StripOneHash(tag)))) > 0
                 /\ Trim(ToLowerCase(StripOneHash(tag))) \notin BlockedNames(blockedTagsRows))

\* formatHashtags
FormatTag(tag) ==
    LET cleanTag == StripHashes(Trim(tag))
    IN  IF cleanTag # <<>> THEN Hash \o cleanTag ELSE <<>>

formatHashtags(hashtags) ==
    SelectSeq(SeqMap(FormatTag, hashtags), LAMBDA tag : Len(tag) > 1)

TagChat       == <<"#", "c", "h", "a", "t">>
TagQuestion   == <<"#", "q", "u", "e", "s", "t", "i", "o", "n">>
TagDetailed   == <<"#", "d", "e", "t", "a", "i", "l", "e", "d">>
TagBrief      == <<"#", "b", "r", "i", "e", "f">>
TagDiscussion == <<"#", "d", "i", "s", "c", "u", "s", "s", "i", "o", "n">>
TagTopic      == <<"#", "t", "o", "p", "i", "c">>
TagQuery      == <<"#", "q", "u", "e", "r", "y">>

generalTags == <<TagDiscussion, TagTopic, DefaultTag, TagQuery>>

DetailedLength == 100
BriefLength == 20

\* generateFallbackHashtags; pick stands for
\* Math.floor(Math.random() * generalTags.length) + 1
generateFallbackHashtags(message, pick) ==
    <<TagChat>>
    \o (IF "?" \in Range(message) THEN <<TagQuestion>> ELSE <<>>)
    \o (IF Len(message) > DetailedLength THEN <<TagDetailed>> ELSE <<>>)
    \o (IF Len(message) < BriefLength THEN <<TagBrief>> ELSE <<>>)
    \o <<generalTags[pick]>>

DefaultMaxTags == 5

\* the filter both entry points apply to explicit hashtags
NotExcluded(tag) ==
    LET cleanTag == Trim(StripOneHash(tag))
    IN  Len(cleanTag) > 0 /\ ~shouldExcludeWord(cleanTag)

\* generateUserMessageHashtags(message, maxTags)
generateUserMessageHashtags(message, maxTags, blocked, synonyms, dbOk, pick) ==
    IF Trim(message) = <<>> THEN <<>>
    ELSE LET explicitTags == extractHashtagsFromText(message, maxTags)
             keywords == extractKeywords(message)
         IN  IF explicitTags # <<>>
             THEN formatHashtags(processHashtags(SelectSeq(explicitTags, NotExcluded),
                                                 blocked, synonyms, dbOk))
             ELSE IF keywords = <<>>
             THEN generateFallbackHashtags(message, pick)
             ELSE formatHashtags(processHashtags(
                      SeqMap(LAMBDA kw : Hash \o kw, Slice(keywords, maxTags)),
                      blocked, synonyms, dbOk))

\* extractHashtags(response, maxTags).hashtags; readOk: the query of
\* filterBlockedTags succeeds, dbOk: those of processHashtags do
extractHashtags(response, maxTags, blocked, synonyms, readOk, dbOk) ==
    IF Trim(response) = <<>> THEN <<>>
    ELSE LET found == extractHashtagsFromResponse(response)
             hashtags ==
                 IF found = <<>>
                 THEN SeqMap(LAMBDA kw : Hash \o kw,
                             Slice(SelectSeq(extractKeywords(response),
                                             LAMBDA kw : ~shouldExcludeWord(kw)),
                                   maxTags))
                 ELSE SelectSeq(found, NotExcluded)
             nonBlockedTags == filterBlockedTags(hashtags, blocked, readOk)
         IN  formatHashtags(processHashtags(nonBlockedTags, blocked, synonyms, dbOk))

----------------------------------------------------------------------------
(* db.js: tables *)

\* INSERT INTO tags (tag_name) VALUES (?) ON DUPLICATE KEY UPDATE
\* usage_count = usage_count + 1; usage_count defaults to 1, and tag_name is
\* unique under a case-insensitive collation
UpsertTag(table, tagName) ==
    LET key == ToLowerCase(tagName)
    IN  IF key \in DOMAIN table THEN [table EXCEPT ![key] = @ + 1]
        ELSE table @@ (key :> 1)

\* processTags(connection, tags)
RECURSIVE processTags(_, _)
processTags(table, tagList) ==
    IF tagList = <<>> THEN table
    ELSE processTags(UpsertTag(table, StripOneHash(Head(tagList))), Tail(tagList))

\* a row of user_messages
MessageRow(session, id, content, tagList) ==
    [session_id |-> session, message_id |-> id, content |-> content,
     tags |-> tagList]

\* NULL in an INT column
Null == -1

\* a row of ollama_responses; saveOllamaResponse is given no userMessageId
\* by processCompletedResponse, so the column is NULL
ResponseRow(session, id, content, tagList) ==
    [session_id |-> session, message_id |-> id, user_message_id |-> Null,
     content |-> content, tags |-> tagList]

\* a row of message_log; the place of a row in the table stands for its
\* timestamp
LogRow(session, id, origin, content, tagList) ==
    [session_id |-> session, message_id |-> id, origin |-> origin,
     content |-> content, tags |-> tagList]

\* UPDATE <table> SET tags = ? WHERE message_id = ?
SetTags(rows, id, tagList) ==
    [i \in 1..Len(rows) |->
        IF rows[i].message_id = id THEN [rows[i] EXCEPT !.tags = tagList]
        ELSE rows[i]]

\* UPDATE message_log SET tags = ? WHERE message_id = ? AND origin = ?
SetLogTags(rows, id, origin, tagList) ==
    [i \in 1..Len(rows) |->
        IF rows[i].message_id = id /\ rows[i].origin = origin
        THEN [rows[i] EXCEPT !.tags = tagList]
        ELSE rows[i]]

\* the migration's example rows of tag_synonyms
SeedSynonyms ==
    { [original_tag |-> <<"j", "s">>,
       better_tag |-> <<"j", "a", "v", "a", "s", "c", "r", "i", "p", "t">>],
      [original_tag |-> <<"a", "i">>,
       better_tag |-> <<"a", "r", "t", "i", "f", "i", "c", "i", "a", "l", "-",
                        "i", "n", "t", "e", "l", "l", "i", "g", "e", "n", "c", "e">>],
      [original_tag |-> <<"r", "e", "a", "c", "t">>,
       better_tag |-> <<"r", "e", "a", "c", "t", "j", "s">>] }

NoRequest == [state |-> "none", prompt |-> <<>>]

\* a call of an entry point of the tagging pipeline and the list it returned
Call(fn, input, maxTags, tagList, blocked, dbOk) ==
    [fn |-> fn, input |-> input, maxTags |-> maxTags, tags |-> tagList,
     blocked |-> blocked, dbOk |-> dbOk]

NoCall == Call("none", <<>>, 0, <<>>, {}, TRUE)

----------------------------------------------------------------------------
(* The records a backend stream is made of *)

RespA     == <<"{", "a", "}", Newline>>
RespB     == <<"{", "b", "}", Newline>>
RespWide  == <<"{", LeadByte, ContByte, "}", Newline>>
DoneRec   == <<"{", "!", "}", Newline>>
BadRec    == <<"{", "a", Newline>>
BlankRec  == <<" ", Newline>>

Records == {RespA, RespB, RespWide, DoneRec, BadRec, BlankRec}

RECURSIVE Streams(_)
Streams(n) ==
    IF n = 0 THEN {<<>>}
    ELSE Streams(n - 1) \cup {s \o r : s \in Streams(n - 1), r \in Records}

----------------------------------------------------------------------------
(* Client events *)

MessageId == <<"m", "1">>

\* the sessionId streamCompletion is called with
SessionId == "s1"

ChunkEvent(text) ==
    [event |-> "messageChunk", messageId |-> MessageId, chunk |-> text, done |-> FALSE,
     hashtags |-> <<>>]

\* a terminal notification that carries no tags
TerminalEventNoTags(finalTags) ==
    [event |-> "messageChunk", messageId |-> MessageId, chunk |-> <<>>, done |-> TRUE,
     hashtags |-> <<>>]

TerminalEvent(finalTags) ==
    [event |-> "messageChunk", messageId |-> MessageId, chunk |-> <<>>, done |-> TRUE,
     hashtags |-> finalTags]

ErrorEvent ==
    [event |-> "error", messageId |-> MessageId, chunk |-> <<>>, done |-> FALSE,
     hashtags |-> <<>>]

\* socket.emit('streamingHashtags', {hashtags: streamTags, messageId, final: false})
StreamingHashtagsEvent(streamTags) ==
    [event |-> "streamingHashtags", messageId |-> MessageId, chunk |-> <<>>,
     done |-> FALSE, hashtags |-> streamTags]

IsFragment(e) == e.event = "messageChunk" /\ ~e.done
IsTerminal(e) == e.event = "messageChunk" /\ e.done
IsError(e)    == e.event = "error"

\* the texts of the fragments (done=false) among the events es, in order
Fragments(es) == SeqMap(LAMBDA e : e.chunk, SelectSeq(es, IsFragment))

----------------------------------------------------------------------------
(* The data handler of streamCompletion *)

\* fullResponse += data.response
AppendResponseOverwrite(full, response) == response

AppendResponse(full, response) == full \o response

\* one trimmed, non-empty segment: the inner try block and its catch.
\* st: fullResponse, chunkCount, out (the events emitted by this handler
\* run), calls (the processCompletedResponse calls made by this run: the
\* text passed, and after how many of the run's events the call was made)
OnParseErrorForward(st, jsonStr) ==
    [st EXCEPT !.fullResponse = @ \o jsonStr,
               !.chunkCount = @ + 1,
               !.out = Append(@, ChunkEvent(jsonStr))]

\* catch (parseError): the segment is logged, nothing else
OnParseError(st, jsonStr) == st

\* "Extract hashtags periodically during streaming"
PreviewLength == 200
PreviewEvery == 10

StartsPreview(full, count) ==
    ~contentExtracted /\ Len(full) > PreviewLength /\ count % PreviewEvery = 0

\* an axios.post to /api/extract-tags whose answer has not come yet
NewPreview(text) == [text |-> text, pc |-> "posted"]

HandleSegment(st, jsonStr) ==
    IF ~IsJson(jsonStr)
    THEN OnParseError(st, jsonStr)
    ELSE LET response == JsonResponse(jsonStr)
             s0 == IF response # <<>>
                   THEN [st EXCEPT !.fullResponse = AppendResponse(@, response),
                                   !.chunkCount = @ + 1,
                                   !.out = Append(@, ChunkEvent(response))]
                   ELSE st
             s1 == IF response # <<>> /\ StartsPreview(s0.fullResponse, s0.chunkCount)
                   THEN [s0 EXCEPT !.posts = Append(@, s0.fullResponse)]
                   ELSE s0
         IN  IF JsonDone(jsonStr)
             THEN [s1 EXCEPT !.calls = Append(@, [text |-> s1.fullResponse,
                                                  after |-> Len(s1.out)])]
             ELSE s1

\* the for loop over the buffer; i and startIdx are 1-based here
RECURSIVE ScanBuffer(_, _, _, _)
ScanBuffer(buf, i, startIdx, st) ==
    IF i > Len(buf) THEN [st EXCEPT !.startIdx = startIdx]
    ELSE IF buf[i] = Newline
         THEN LET jsonStr == Trim(SubSeq(buf, startIdx, i - 1))
              IN  ScanBuffer(buf, i + 1, i + 1,
                             IF jsonStr = <<>> THEN st
                             ELSE HandleSegment(st, jsonStr))
    ELSE ScanBuffer(buf, i + 1, startIdx, st)

\* "Keep any remaining incomplete content in the buffer"
KeepRemainderNone(buf, startIdx) == <<>>

KeepRemainder(buf, startIdx) ==
    IF startIdx <= Len(buf) THEN SubSeq(buf, startIdx, Len(buf)) ELSE <<>>

\* a processCompletedResponse call: the text it was given, where it stands,
\* and (bookkeeping) how many events the client had been sent when it was made
NewTask(text, at) ==
    [text |-> text, pc |-> "extract", tags |-> <<>>, startedAt |-> at]

\* response.data.on('data', chunk => ...) for an event of k bytes
Data(k) ==
    /\ streamState = "open"
    /\ pos + k <= Len(stream)
    /\ LET chunk == SubSeq(stream, pos + 1, pos + k)
           text  == Utf8Decode(chunk)
           buf   == buffer \o text
           st    == ScanBuffer(buf, 1, 1,
                       [fullResponse |-> fullResponse, chunkCount |-> chunkCount,
                        out |-> <<>>, calls |-> <<>>, posts |-> <<>>, startIdx |-> 1])
       IN  /\ pos' = pos + k
           /\ received' = received \o text
           /\ buffer' = KeepRemainder(buf, st.startIdx)
           /\ fullResponse' = st.fullResponse
           /\ chunkCount' = st.chunkCount
           /\ emitted' = emitted \o st.out
           /\ tasks' = tasks \o
                 [j \in 1..Len(st.calls) |->
                     NewTask(st.calls[j].text, Len(emitted) + st.calls[j].after)]
           /\ previews' = previews \o
                 [j \in 1..Len(st.posts) |-> NewPreview(st.posts[j])]
    /\ UNCHANGED <<stream, streamState, contentExtracted, tableVars, returned,
                   usageVars, sessions, gens, request>>

\* the answer to an axios.post to /api/extract-tags: .then (answered) or
\* .catch.  The route runs extractHashtags on the text it was posted.
PreviewAnswer(p, answered, readOk, dbOk) ==
    /\ p \in 1..Len(previews)
    /\ previews[p].pc = "posted"
    /\ previews' = [previews EXCEPT ![p].pc = "settled"]
    /\ IF answered
       THEN LET streamTags == extractHashtags(previews[p].text, DefaultMaxTags,
                                              blocked_tags, tag_synonyms, readOk, dbOk)
            IN  /\ emitted' = Append(emitted, StreamingHashtagsEvent(streamTags))
                /\ contentExtracted' = (contentExtracted \/ Len(streamTags) > 0)
                /\ returned' = Call("extractHashtags", previews[p].text,
                                     DefaultMaxTags, streamTags, blocked_tags,
                                     readOk /\ dbOk)
       ELSE UNCHANGED <<emitted, contentExtracted, returned>>
    /\ UNCHANGED <<stream, pos, streamState, received, buffer, fullResponse,
                   chunkCount, tasks, tableVars, usageVars, sessions, gens, request>>

\* the backend closes the stream; streamCompletion registers no handler
StreamEnd ==
    /\ streamState = "open"
    /\ pos = Len(stream)
    /\ streamState' = "ended"
    /\ UNCHANGED <<previewVars, stream, pos, received, buffer, fullResponse, chunkCount,
                   tasks, emitted, tableVars, returned, usageVars, sessions, gens, request>>

\* response.data.on('error', ...)
StreamError ==
    /\ streamState = "open"
    /\ streamState' = "errored"
    /\ emitted' = Append(emitted, ErrorEvent)
    /\ UNCHANGED <<previewVars, stream, pos, received, buffer, fullResponse, chunkCount,
                   tasks, tableVars, returned, usageVars, sessions, gens, request>>

----------------------------------------------------------------------------
(* processCompletedResponse: one action per await *)

\* await hashtagService.extractHashtags(fullResponse); it catches its own
\* errors.  readOk, dbOk: its queries succeed.
ExtractTags(t, readOk, dbOk) ==
    /\ t \in 1..Len(tasks)
    /\ tasks[t].pc = "extract"
    /\ LET finalTags == extractHashtags(tasks[t].text, DefaultMaxTags, blocked_tags,
                                        tag_synonyms, readOk, dbOk)
       IN  /\ tasks' = [tasks EXCEPT ![t].pc = "save", ![t].tags = finalTags]
           /\ returned' = Call("extractHashtags", tasks[t].text, DefaultMaxTags,
                                finalTags, blocked_tags, readOk /\ dbOk)
    /\ UNCHANGED <<previewVars, stream, pos, streamState, received, buffer, fullResponse,
                   chunkCount, emitted, tableVars, usageVars, sessions, gens, request>>

\* await db.saveOllamaResponse({...}) inside its own try/catch.  It throws
\* before touching the database when the response is empty; otherwise the
\* two rows and the tag counts are written in one transaction, which commits
\* (saveOk) or rolls back.
SaveResponse(t, saveOk) ==
    /\ t \in 1..Len(tasks)
    /\ tasks[t].pc = "save"
    /\ tasks' = [tasks EXCEPT ![t].pc = "activity"]
    /\ IF tasks[t].text # <<>> /\ saveOk
       THEN /\ ollama_responses' =
                  Append(ollama_responses,
                         ResponseRow(SessionId, MessageId, tasks[t].text,
                                     tasks[t].tags))
            /\ message_log' =
                  Append(message_log,
                         LogRow(SessionId, MessageId, "assistant", tasks[t].text,
                                tasks[t].tags))
            /\ tags' = processTags(tags, tasks[t].tags)
       ELSE UNCHANGED <<ollama_responses, message_log, tags>>
    /\ UNCHANGED <<previewVars, stream, pos, streamState, received, buffer, fullResponse,
                   chunkCount, emitted, blocked_tags, tag_synonyms, user_messages,
                   returned, usageVars, sessions, gens, request>>

\* await db.updateSessionActivity(sessionId)
UpdateActivity(t) ==
    /\ t \in 1..Len(tasks)
    /\ tasks[t].pc = "activity"
    /\ tasks' = [tasks EXCEPT ![t].pc = "emit"]
    /\ UNCHANGED <<previewVars, stream, pos, streamState, received, buffer, fullResponse,
                   chunkCount, emitted, tableVars, returned, usageVars, sessions, gens, request>>

\* socket.emit('messageChunk', {chunk: '', messageId, done: true, hashtags: finalTags, ...})
EmitTerminal(t) ==
    /\ t \in 1..Len(tasks)
    /\ tasks[t].pc = "emit"
    /\ tasks' = [tasks EXCEPT ![t].pc = "finished"]
    /\ emitted' = Append(emitted, TerminalEvent(tasks[t].tags))
    /\ UNCHANGED <<previewVars, stream, pos, streamState, received, buffer, fullResponse,
                   chunkCount, tableVars, returned, usageVars, sessions, gens, request>>

----------------------------------------------------------------------------
(* One turn of a chat: the tables and the tagging pipeline *)

\* user messages
MsgTagged == <<"u", "s", "e", " ", "#", "R", "e", "a", "c", "t">>
MsgPlain  == <<"g", "r", "a", "p", "h", "q", "l", " ", "c", "a", "c", "h", "i", "n", "g", "?">>
MsgShort  == <<"h", "i">>
Messages == {MsgTagged, MsgPlain, MsgShort}

\* generated responses
RespSection == <<"o", "k", Newline, "#", "H", "A", "S", "H", "T", "A", "G", "S", ":", " ", "#", "#", "a", "i", ",", " ", "g", "r", "a", "p", "h", "q", "l">>
RespInline  == <<"t", "r", "y", " ", "#", "r", "e", "a", "c", "t">>
RespPlain   == <<"g", "r", "a", "p", "h", "q", "l", " ", "c", "a", "c", "h", "i", "n", "g">>
Responses == {RespSection, RespInline, RespPlain}

\* names given to blockTag
BlockInputs == {<<"r", "e", "a", "c", "t", "j", "s">>, <<"#", "C", "h", "a", "t">>, <<"g", "r", "a", "p", "h", "q", "l">>}

\* tags given to the add-tag operations
AddTagInputs == {<<"a", "i">>, <<"#", "#", "a", "i">>, <<"g", "r", "a", "p", "h", "q", "l">>}

\* blockTag(tagName, reason)
BlockTag(tagName) ==
    /\ LET cleanedTag == Trim(ToLowerCase(StripOneHash(tagName)))
       IN  IF cleanedTag = <<>> THEN UNCHANGED blocked_tags
           ELSE blocked_tags' = blocked_tags \cup {cleanedTag}
    /\ UNCHANGED <<streamVars, tag_synonyms, tags, user_messages, ollama_responses,
                   message_log, returned, usageVars, sessions, gens, request>>

\* findRelatedConversation: the search tags of the query
SearchTags(userHashtags) ==
    SelectSeq([i \in 1..Len(userHashtags) |->
                   Trim(ToLowerCase(StripOneHash(userHashtags[i])))],
              LAMBDA cleanTag : Len(cleanTag) >= 3)

\* JSON_SEARCH(ml.tags, "one", '#' + cleanTag) IS NOT NULL OR
\* JSON_SEARCH(ml.tags, "one", cleanTag) IS NOT NULL, for one of the tags
MatchesTags(row, cleanTags) ==
    \E i \in 1..Len(cleanTags) :
        Hash \o cleanTags[i] \in Range(row.tags) \/ cleanTags[i] \in Range(row.tags)

\* LIMIT 30 of the tag search
SearchLimit == 30

\* a tag search without the session condition
RECURSIVE LatestFirstAnySession(_, _, _, _)
LatestFirstAnySession(log, i, cleanTags, sessionId) ==
    IF i = 0 THEN <<>>
    ELSE (IF MatchesTags(log[i], cleanTags) THEN <<i>> ELSE <<>>)
         \o LatestFirstAnySession(log, i - 1, cleanTags, sessionId)

\* the places in message_log of the rows the tag search returns: another
\* session's, latest first
RECURSIVE LatestFirst(_, _, _, _)
LatestFirst(log, i, cleanTags, sessionId) ==
    IF i = 0 THEN <<>>
    ELSE (IF MatchesTags(log[i], cleanTags) /\ log[i].session_id # sessionId
          THEN <<i>> ELSE <<>>)
         \o LatestFirst(log, i - 1, cleanTags, sessionId)

\* the number MySQL compares an INT column with when given a string: the
\* value of its leading decimal digits, 0 without any (ids here carry no
\* sign, fraction or exponent)
DecimalDigits == <<"0", "1", "2", "3", "4", "5", "6", "7", "8", "9">>
DigitValue(c) == (CHOOSE k \in 1..10 : DecimalDigits[k] = c) - 1
RECURSIVE ToNumberFrom(_, _)
ToNumberFrom(s, acc) ==
    IF s = <<>> \/ Head(s) \notin Digits THEN acc
    ELSE ToNumberFrom(Tail(s), acc * 10 + DigitValue(Head(s)))
ToNumber(s) == ToNumberFrom(s, 0)

\* the conversation of one matching row, <<>> when a part of it is missing;
\* WHERE user_message_id = ? is given the row's message_id, a string
RelevantContent(log, responses, i) ==
    LET row == log[i]
        responseRows == SelectSeq(responses, LAMBDA r :
                            /\ r.user_message_id # Null
                            /\ r.user_message_id = ToNumber(row.message_id))
        userPlaces == {k \in 1..(i - 1) :
                          log[k].session_id = row.session_id /\ log[k].origin = "user"}
        lastUser == CHOOSE k \in userPlaces : \A m \in userPlaces : m <= k
    IN  IF row.origin = "user"
        THEN IF responseRows # <<>> /\ row.content # <<>>
                                   /\ responseRows[1].content # <<>>
             THEN <<[userMessage |-> row.content,
                     assistantResponse |-> responseRows[1].content,
                     messageId |-> responseRows[1].message_id,
                     sessionId |-> row.session_id,
                     matched |-> i]>>
             ELSE <<>>
        ELSE IF userPlaces # {} /\ log[lastUser].content # <<>> /\ row.content # <<>>
             THEN <<[userMessage |-> log[lastUser].content,
                     assistantResponse |-> row.content,
                     messageId |-> row.message_id,
                     sessionId |-> row.session_id,
                     matched |-> i]>>
             ELSE <<>>

\* for (const row of rows): processedMessageIds and relatedMessages
RECURSIVE RelatedLoop(_, _, _, _, _, _)
RelatedLoop(rows, processedMessageIds, relatedMessages, limit, log, responses) ==
    IF rows = <<>> THEN relatedMessages
    ELSE LET row == log[Head(rows)]
         IN  IF \/ row.message_id \in processedMessageIds
                \/ Len(relatedMessages) >= limit
             THEN RelatedLoop(Tail(rows), processedMessageIds, relatedMessages,
                              limit, log, responses)
             ELSE RelatedLoop(Tail(rows),
                              processedMessageIds \cup {row.message_id},
                              relatedMessages
                                  \o RelevantContent(log, responses, Head(rows)),
                              limit, log, responses)

\* limit = 3
DefaultLimit == 3

\* a lookup whose failure is not caught: it answers as if the queries succeeded
findRelatedConversationNoCatch(userHashtags, sessionId, limit, log, responses, lookupOk) ==
    LET cleanTags == SearchTags(userHashtags)
    IN  IF userHashtags = <<>> \/ cleanTags = <<>> THEN <<>>
        ELSE RelatedLoop(Slice(LatestFirst(log, Len(log), cleanTags, sessionId),
                               SearchLimit),
                         {}, <<>>, limit, log, responses)

\* findRelatedConversation(userHashtags, sessionId, limit); lookupOk: its
\* queries succeed (the catch returns [])
findRelatedConversation(userHashtags, sessionId, limit, log, responses, lookupOk) ==
    LET cleanTags == SearchTags(userHashtags)
    IN  IF userHashtags = <<>> \/ cleanTags = <<>> \/ ~lookupOk THEN <<>>
        ELSE RelatedLoop(Slice(LatestFirst(log, Len(log), cleanTags, sessionId),
                               SearchLimit),
                         {}, <<>>, limit, log, responses)

ContextHeader == 
    <<Newline, Newline, "#", "#", "#", " ", "R", "e", "l", "a", "t", "e",
      "d", " ", "c", "o", "n", "v", "e", "r", "s", "a", "t", "i", "o", "n",
      "s", " ", "o", "n", " ", "t", "h", "e", "s", "e", " ", "t", "o", "p",
      "i", "c", "s", ":", Newline, Newline>>
ContextEntry == 
    <<"P", "r", "e", "v", "i", "o", "u", "s", " ", "C", "o", "n", "v", "e",
      "r", "s", "a", "t", "i", "o", "n", " ">>
ContextAssistant == 
    <<"A", "s", "s", "i", "s", "t", "a", "n", "t", ":", " ">>
ContextFooter == 
    <<"#", "#", "#", " ", "E", "n", "d", " ", "o", "f", " ", "r", "e", "l",
      "a", "t", "e", "d", " ", "c", "o", "n", "v", "e", "r", "s", "a", "t",
      "i", "o", "n", "s", Newline, Newline>>
ContextHuman == 
    <<"N", "o", "w", ",", " ", "r", "e", "s", "p", "o", "n", "d", "i", "n",
      "g", " ", "t", "o", " ", "t", "h", "e", " ", "c", "u", "r", "r", "e",
      "n", "t", " ", "q", "u", "e", "r", "y", ":", Newline, "H", "u", "m",
      "a", "n", ":", " ">>
ContextEnd == 
    <<Newline, "A", "s", "s", "i", "s", "t", "a", "n", "t", ":">>
DigitChars == <<"1", "2", "3", "4", "5", "6", "7", "8", "9">>

\* the prompt streamCompletion builds from the related conversations
RECURSIVE RelatedEntries(_, _)
RelatedEntries(relatedConversations, index) ==
    IF index > Len(relatedConversations) THEN <<>>
    ELSE ContextEntry \o <<DigitChars[index]>> \o <<":", Newline>>
         \o ContextAssistant \o relatedConversations[index].assistantResponse
         \o <<Newline, Newline>>
         \o RelatedEntries(relatedConversations, index + 1)

enhancedPrompt(message, relatedConversations) ==
    IF relatedConversations = <<>> THEN message
    ELSE ContextHeader \o RelatedEntries(relatedConversations, 1)
         \o ContextFooter \o ContextHuman \o message \o ContextEnd

\* socket.emit('userHashtags', {hashtags, messageId})
UserHashtagsEvent(userHashtags) ==
    [event |-> "userHashtags", messageId |-> MessageId, chunk |-> <<>>,
     done |-> FALSE, hashtags |-> userHashtags]

\* socket.emit('error', {message: 'Failed to generate streaming response'})
SetupErrorEvent ==
    [event |-> "error", messageId |-> MessageId, chunk |-> <<>>, done |-> FALSE,
     hashtags |-> <<>>]

\* streamCompletion up to the request.  db.saveUserMessage(messageParams)
\* stores the message without tags (saveOk: it commits; it rethrows
\* otherwise and the outer catch ends the call).  Then, in one try:
\* generateUserMessageHashtags(message), the two UPDATEs that write the tags
\* to the rows (updated: how many of them succeed before one throws), the
\* userHashtags event and findRelatedConversation.  Then the request
\* (backendOk: the backend answers with a stream).
UserTurn(message, saveOk, dbOk, updated, lookupOk, backendOk, pick) ==
    /\ request.state = "none"
    /\ IF ~saveOk
       THEN /\ emitted' = Append(emitted, SetupErrorEvent)
            /\ request' = [state |-> "aborted", prompt |-> <<>>]
            /\ UNCHANGED <<user_messages, message_log, returned>>
       ELSE LET userHashtags == generateUserMessageHashtags(message, DefaultMaxTags,
                                    blocked_tags, tag_synonyms, dbOk, pick)
                saved == Append(user_messages,
                                MessageRow(SessionId, MessageId, message, <<>>))
                logged == Append(message_log,
                                 LogRow(SessionId, MessageId, "user", message, <<>>))
                relatedConversations ==
                    IF updated < 2 THEN <<>>
                    ELSE findRelatedConversation(userHashtags, SessionId,
                             DefaultLimit, logged, ollama_responses, lookupOk)
                prompt == enhancedPrompt(message, relatedConversations)
            IN  /\ user_messages' = IF updated >= 1
                                    THEN SetTags(saved, MessageId, userHashtags)
                                    ELSE saved
                /\ message_log' = IF updated >= 2
                                  THEN SetLogTags(logged, MessageId, "user",
                                                  userHashtags)
                                  ELSE logged
                /\ returned' = Call("generateUserMessageHashtags", message,
                                     DefaultMaxTags, userHashtags, blocked_tags,
                                     dbOk)
                /\ emitted' = emitted
                       \o (IF updated = 2 THEN <<UserHashtagsEvent(userHashtags)>>
                           ELSE <<>>)
                       \o (IF backendOk THEN <<>> ELSE <<SetupErrorEvent>>)
                /\ request' = [state |-> IF backendOk THEN "sent" ELSE "refused",
                               prompt |-> prompt]
    /\ UNCHANGED <<previewVars, stream, pos, streamState, received, buffer, fullResponse,
                   chunkCount, tasks, blocked_tags, tag_synonyms, tags,
                   ollama_responses, usageVars, sessions, gens>>

\* the data handler has accumulated `response` and reads a record with
\* done: processCompletedResponse(fullResponse, ...) starts
Completed(response) ==
    /\ request.state = "sent"
    /\ Len(tasks) < MaxResponses
    /\ fullResponse' = response
    /\ tasks' = Append(tasks, NewTask(response, Len(emitted)))
    /\ UNCHANGED <<previewVars, stream, pos, streamState, received, buffer, chunkCount, emitted,
                   tableVars, returned, usageVars, sessions, gens, request>>

\* POST /api/add-tag {tag, messageId}
AddTagRoute(tag, messageId) ==
    LET trimmed == Trim(tag)
        formattedTag == IF StartsWithHash(trimmed) THEN trimmed ELSE Hash \o trimmed
        cleanTag == ToLowerCase(StripOneHash(formattedTag))
        responseRows == SelectSeq(ollama_responses,
                                  LAMBDA row : row.message_id = messageId)
        existingTags == responseRows[1].tags
        newTags == Append(existingTags, formattedTag)
    IN  /\ IF \/ tag = <<>>
              \/ cleanTag \in blocked_tags
              \/ shouldExcludeWord(cleanTag)
              \/ responseRows = <<>>
              \/ \E i \in 1..Len(existingTags) :
                     ToLowerCase(existingTags[i]) = ToLowerCase(formattedTag)
           THEN UNCHANGED <<ollama_responses, message_log>>
           ELSE /\ ollama_responses' = SetTags(ollama_responses, messageId, newTags)
                /\ message_log' = SetLogTags(message_log, messageId, "assistant",
                                             newTags)
        /\ UNCHANGED <<streamVars, blocked_tags, tag_synonyms, tags, user_messages,
                       returned, usageVars, sessions, gens, request>>

\* addTagToLastAssistantMessage(tag, sessionId, messageId), messageId given
AddTagToLastAssistantMessage(tag, messageId) ==
    LET cleanTag == Trim(ToLowerCase(StripOneHash(tag)))
        formattedTag == Hash \o cleanTag
        found == {i \in 1..Len(ollama_responses) :
                      ollama_responses[i].message_id = messageId}
        responseId == IF found = {} THEN 0
                      ELSE CHOOSE i \in found : \A j \in found : i <= j
        logRows == SelectSeq(message_log, LAMBDA row :
                       row.message_id = messageId /\ row.origin = "assistant")
        parsedTags == IF responseId # 0 THEN ollama_responses[responseId].tags
                      ELSE IF logRows # <<>> THEN logRows[1].tags
                      ELSE <<>>
        normalizedTags == {ToLowerCase(StripOneHash(parsedTags[i])) :
                               i \in 1..Len(parsedTags)}
        newTags == Append(parsedTags, formattedTag)
    IN  /\ IF cleanTag = <<>> \/ cleanTag \in normalizedTags
           THEN UNCHANGED <<ollama_responses, message_log>>
           ELSE /\ ollama_responses' =
                      IF responseId # 0
                      THEN [ollama_responses EXCEPT ![responseId].tags = newTags]
                      ELSE ollama_responses
                /\ message_log' = SetLogTags(message_log, messageId, "assistant",
                                             newTags)
        /\ UNCHANGED <<streamVars, blocked_tags, tag_synonyms, tags, user_messages,
                       returned, usageVars, sessions, gens, request>>

\* uuidv4() of the n-th save
FreshId(n) == <<"i", DecimalDigits[n + 1]>>

Saved == Len(user_messages) + Len(ollama_responses)

\* saveUserMessage(sessionId, message, hashtags): the two rows and the tag
\* counts in one transaction, which commits (saveOk) or rolls back
SaveUserMessage(hashtags, saveOk) ==
    /\ Saved < MaxSaved
    /\ IF saveOk
       THEN /\ user_messages' =
                  Append(user_messages,
                         MessageRow(SessionId, FreshId(Saved + 1), MsgShort, hashtags))
            /\ message_log' =
                  Append(message_log,
                         LogRow(SessionId, FreshId(Saved + 1), "user", MsgShort,
                                hashtags))
            /\ tags' = processTags(tags, hashtags)
       ELSE UNCHANGED <<user_messages, message_log, tags>>
    /\ UNCHANGED <<streamVars, blocked_tags, tag_synonyms, ollama_responses,
                   returned, usageVars, sessions, gens, request>>

\* saveOllamaResponse(sessionId, response, userMessageId, tags)
SaveOllamaResponse(hashtags, saveOk) ==
    /\ Saved < MaxSaved
    /\ IF saveOk
       THEN /\ ollama_responses' =
                  Append(ollama_responses,
                         ResponseRow(SessionId, FreshId(Saved + 1), RespPlain,
                                     hashtags))
            /\ message_log' =
                  Append(message_log,
                         LogRow(SessionId, FreshId(Saved + 1), "assistant",
                                RespPlain, hashtags))
            /\ tags' = processTags(tags, hashtags)
       ELSE UNCHANGED <<ollama_responses, message_log, tags>>
    /\ UNCHANGED <<streamVars, blocked_tags, tag_synonyms, user_messages,
                   returned, usageVars, sessions, gens, request>>

\* removeTagFromMessage(messageId, tag): the assistant message of that id,
\* else the user message; it throws when there is neither
RemoveTagFromMessage(messageId, tag) ==
    LET messages == SelectSeq(ollama_responses,
                              LAMBDA row : row.message_id = messageId)
        userMessages == SelectSeq(user_messages,
                                  LAMBDA row : row.message_id = messageId)
        tagToRemove == IF StartsWithHash(tag) THEN tag ELSE Hash \o tag
        Kept(t) == /\ ToLowerCase(t) # ToLowerCase(tagToRemove)
                   /\ ToLowerCase(t) # ToLowerCase(tag)
    IN  /\ IF messages # <<>>
           THEN /\ ollama_responses' =
                      SetTags(ollama_responses, messageId,
                              SelectSeq(messages[1].tags, Kept))
                /\ UNCHANGED user_messages
           ELSE IF userMessages # <<>>
           THEN /\ user_messages' =
                      SetTags(user_messages, messageId,
                              SelectSeq(userMessages[1].tags, Kept))
                /\ UNCHANGED ollama_responses
           ELSE UNCHANGED <<user_messages, ollama_responses>>
        /\ UNCHANGED <<streamVars, blocked_tags, tag_synonyms, tags, message_log,
                       returned, usageVars, sessions, gens, request>>

\* POST /api/remove-tag {sessionId, messageId, tag}
RemoveTagRoute(tag, messageId) ==
    LET messageResults == SelectSeq(ollama_responses,
                                    LAMBDA row : row.message_id = messageId)
        existingTags == IF messageResults # <<>> THEN messageResults[1].tags
                        ELSE <<>>
        cleanTagToRemove == ToLowerCase(StripOneHash(tag))
        updatedTags == SelectSeq(existingTags, LAMBDA t :
                           ToLowerCase(StripOneHash(t)) # cleanTagToRemove)
    IN  /\ IF tag = <<>> THEN UNCHANGED ollama_responses
           ELSE ollama_responses' = SetTags(ollama_responses, messageId, updatedTags)
        /\ UNCHANGED <<streamVars, blocked_tags, tag_synonyms, tags, user_messages,
                       message_log, returned, usageVars, sessions, gens, request>>

\* POST /api/block-tag {tag, messageId, sessionId}, messageId given
BlockTagRoute(tag, messageId) ==
    LET cleanTag == StripOneHash(tag)
        responseRows == SelectSeq(ollama_responses,
                                  LAMBDA row : row.message_id = messageId)
        updatedTags == SelectSeq(responseRows[1].tags, LAMBDA t :
                           ToLowerCase(StripOneHash(t)) # ToLowerCase(cleanTag))
    IN  /\ IF tag = <<>>
           THEN UNCHANGED <<blocked_tags, ollama_responses, message_log>>
           ELSE /\ blocked_tags' = blocked_tags \cup {ToLowerCase(cleanTag)}
                /\ IF responseRows # <<>>
                   THEN /\ ollama_responses' =
                              SetTags(ollama_responses, messageId, updatedTags)
                        /\ message_log' =
                              SetLogTags(message_log, messageId, "assistant",
                                         updatedTags)
                   ELSE UNCHANGED <<ollama_responses, message_log>>
        /\ UNCHANGED <<streamVars, tag_synonyms, tags, user_messages, returned,
                       usageVars, sessions, gens, request>>

----------------------------------------------------------------------------
(* Concurrent recordings of a use of one tag name *)

UsageTag == <<"r", "e", "d", "i", "s">>

UsageCount(table) == IF UsageTag \in DOMAIN table THEN table[UsageTag] ELSE 0

\* processTags inside the transaction of saveUserMessage / saveOllamaResponse:
\* INSERT ... ON DUPLICATE KEY UPDATE usage_count = usage_count + 1.  The
\* statement waits for the row's lock and keeps it until the commit.
UpsertInTransaction(o) ==
    /\ ops[o].kind = "processTags"
    /\ ops[o].pc = "start"
    /\ rowLock = 0
    /\ tags' = processTags(tags, <<Hash \o UsageTag>>)
    /\ rowLock' = o
    /\ ops' = [ops EXCEPT ![o].pc = "commit"]
    /\ UNCHANGED <<streamVars, blocked_tags, tag_synonyms, user_messages,
                   ollama_responses, message_log, returned, usedBefore, sessions, gens, request>>

\* await connection.commit()
Commit(o) ==
    /\ ops[o].pc = "commit"
    /\ rowLock' = 0
    /\ ops' = [ops EXCEPT ![o].pc = "done"]
    /\ UNCHANGED <<streamVars, tableVars, returned, usedBefore, sessions, gens, request>>

\* addManualTag: UPDATE tags SET usage_count = usage_count + 1 WHERE tag_name = ?
ManualUpdate(o) ==
    /\ ops[o].kind = "addManualTag"
    /\ ops[o].pc = "start"
    /\ rowLock = 0
    /\ LET cleanedTag == Trim(ToLowerCase(StripOneHash(Hash \o UsageTag)))
           affectedRows == IF cleanedTag \in DOMAIN tags THEN 1 ELSE 0
       IN  IF affectedRows = 0
           THEN /\ ops' = [ops EXCEPT ![o].pc = "insert"]
                /\ UNCHANGED tags
           ELSE /\ ops' = [ops EXCEPT ![o].pc = "done"]
                /\ tags' = [tags EXCEPT ![cleanedTag] = @ + 1]
    /\ UNCHANGED <<streamVars, blocked_tags, tag_synonyms, user_messages,
                   ollama_responses, message_log, returned, rowLock, usedBefore, sessions, gens, request>>

\* addManualTag: INSERT INTO tags (tag_name, usage_count) VALUES (?, 1); the
\* unique key on tag_name rejects it when the row exists by now, and the
\* catch rethrows
ManualInsert(o) ==
    /\ ops[o].kind = "addManualTag"
    /\ ops[o].pc = "insert"
    /\ rowLock = 0
    /\ LET cleanedTag == Trim(ToLowerCase(StripOneHash(Hash \o UsageTag)))
       IN  IF cleanedTag \in DOMAIN tags
           THEN /\ ops' = [ops EXCEPT ![o].pc = "failed"]
                /\ UNCHANGED tags
           ELSE /\ ops' = [ops EXCEPT ![o].pc = "done"]
                /\ tags' = tags @@ (cleanedTag :> 1)
    /\ UNCHANGED <<streamVars, blocked_tags, tag_synonyms, user_messages,
                   ollama_responses, message_log, returned, rowLock, usedBefore, sessions, gens, request>>

----------------------------------------------------------------------------
(* The specifications *)

NoTables ==
    /\ blocked_tags = {}
    /\ tag_synonyms = SeedSynonyms
    /\ tags = <<>>
    /\ user_messages = <<>>
    /\ ollama_responses = <<>>
    /\ message_log = <<>>
    /\ returned = NoCall

NoStream ==
    /\ stream = <<>>
    /\ pos = 0
    /\ streamState = "open"
    /\ received = <<>>
    /\ buffer = <<>>
    /\ fullResponse = <<>>
    /\ chunkCount = 0
    /\ tasks = <<>>
    /\ emitted = <<>>
    /\ contentExtracted = FALSE
    /\ previews = <<>>

NoOps ==
    /\ ops = <<>>
    /\ rowLock = 0
    /\ usedBefore = 0
    /\ sessions = {}
    /\ gens = <<>>

\* one generation: the backend's stream and its handlers
Init ==
    /\ stream \in Streams(MaxRecords)
    /\ pos = 0
    /\ streamState = "open"
    /\ received = <<>>
    /\ buffer = <<>>
    /\ fullResponse = <<>>
    /\ chunkCount = 0
    /\ tasks = <<>>
    /\ emitted = <<>>
    /\ contentExtracted = FALSE
    /\ previews = <<>>
    /\ NoTables
    /\ NoOps
    /\ request = [state |-> "sent", prompt |-> MsgShort]

Finalization ==
    \/ \E t \in 1..Len(tasks), readOk \in BOOLEAN, dbOk \in BOOLEAN :
           ExtractTags(t, readOk, dbOk)
    \/ \E t \in 1..Len(tasks), saveOk \in BOOLEAN : SaveResponse(t, saveOk)
    \/ \E t \in 1..Len(tasks) : UpdateActivity(t)
    \/ \E t \in 1..Len(tasks) : EmitTerminal(t)

Next ==
    \/ \E k \in 1..Len(stream) : Data(k)
    \/ StreamEnd
    \/ StreamError
    \/ Finalization

Spec == Init /\ [][Next]_vars

\* one generation under Node's scheduling: an event that is ready is
\* delivered and an awaited call returns; the backend may also close the
\* stream right after the last record, before its newline
Unfinished == {SubSeq(s, 1, Len(s) - 1) : s \in Streams(MaxRecords) \ {<<>>}}

InitLive ==
    /\ stream \in Streams(MaxRecords) \cup Unfinished
    /\ pos = 0
    /\ streamState = "open"
    /\ received = <<>>
    /\ buffer = <<>>
    /\ fullResponse = <<>>
    /\ chunkCount = 0
    /\ tasks = <<>>
    /\ emitted = <<>>
    /\ contentExtracted = FALSE
    /\ previews = <<>>
    /\ NoTables
    /\ NoOps
    /\ request = [state |-> "sent", prompt |-> MsgShort]

SpecLive ==
    /\ InitLive
    /\ [][Next]_vars
    /\ WF_vars(\E k \in 1..Len(stream) : Data(k))
    /\ WF_vars(StreamEnd)
    /\ WF_vars(Finalization)

\* one generation long enough for the tag preview: MaxFragments records of
\* FragmentLength characters each, then the terminal record
MaxFragments == 10
FragmentLength == 21

LongRec == <<"{">> \o [i \in 1..FragmentLength |-> "a"] \o <<"}", Newline>>

RECURSIVE Repeat(_, _)
Repeat(rec, n) == IF n = 0 THEN <<>> ELSE rec \o Repeat(rec, n - 1)

LongStream == Repeat(LongRec, MaxFragments) \o DoneRec

\* data events carry whole records: one or two
EventSizes == {Len(LongRec), 2 * Len(LongRec), Len(DoneRec)}

InitPreview ==
    /\ stream = LongStream
    /\ pos = 0
    /\ streamState = "open"
    /\ received = <<>>
    /\ buffer = <<>>
    /\ fullResponse = <<>>
    /\ chunkCount = 0
    /\ tasks = <<>>
    /\ emitted = <<>>
    /\ contentExtracted = FALSE
    /\ previews = <<>>
    /\ NoTables
    /\ NoOps
    /\ request = [state |-> "sent", prompt |-> MsgShort]

NextPreview ==
    \/ \E k \in EventSizes : Data(k)
    \/ \E p \in 1..Len(previews), answered \in BOOLEAN, readOk \in BOOLEAN,
          dbOk \in BOOLEAN : PreviewAnswer(p, answered, readOk, dbOk)
    \/ StreamEnd
    \/ StreamError
    \/ Finalization

SpecPreview == InitPreview /\ [][NextPreview]_vars

\* one turn: tags are blocked, the user message is tagged and stored, the
\* response is tagged and stored, tags are added by hand
InitPipeline ==
    /\ NoStream
    /\ NoTables
    /\ NoOps
    /\ request = NoRequest

NextPipeline ==
    \/ \E tagName \in BlockInputs : BlockTag(tagName)
    \/ \E message \in Messages, dbOk \in BOOLEAN, pick \in 1..Len(generalTags) :
           UserTurn(message, TRUE, dbOk, 2, TRUE, TRUE, pick)
    \/ \E response \in Responses : Completed(response)
    \/ Finalization
    \/ \E tag \in AddTagInputs : AddTagRoute(tag, MessageId)
    \/ \E tag \in AddTagInputs : AddTagToLastAssistantMessage(tag, MessageId)

SpecPipeline == InitPipeline /\ [][NextPipeline]_vars

----------------------------------------------------------------------------
(* Calls of the entry points of the tagging pipeline *)

\* One call is made under each choice of tables.

\* candidate lists given to processHashtags
CandidateJs     == <<"#", "j", "s">>
CandidateUpper  == <<"J", "S", " ">>
CandidateLong   == <<"#", "j", "a", "v", "a", "s", "c", "r", "i", "p", "t">>
CandidateBare   == <<"#">>
CandidateDouble == <<"#", "#", "j", "s">>
CandidateInputs ==
    {CandidateJs, CandidateUpper, CandidateLong, CandidateBare, CandidateDouble}

\* the number of candidates of a list
MaxCandidates == 2

CandidateLists ==
    UNION {[1..n -> CandidateInputs] : n \in 1..MaxCandidates}

\* rows tag_synonyms can hold: an entry, its reverse and a chain
Javascript == <<"j", "a", "v", "a", "s", "c", "r", "i", "p", "t">>
SynonymRows ==
    { [original_tag |-> <<"j", "s">>, better_tag |-> Javascript],
      [original_tag |-> Javascript, better_tag |-> <<"j", "s">>],
      [original_tag |-> Javascript, better_tag |-> <<"r", "e", "a", "c", "t">>] }

\* UNIQUE KEY (original_tag)
UniqueOriginals(rows) ==
    \A r1, r2 \in rows : r1.original_tag = r2.original_tag => r1 = r2

\* the values of maxTags calls are made with
MaxTagsInputs == {1, 2, DefaultMaxTags}

\* processHashtags(hashtags)
Resolve(hashtags, dbOk) ==
    /\ returned = NoCall
    /\ returned' = Call("processHashtags", hashtags, 0,
                        processHashtags(hashtags, blocked_tags, tag_synonyms, dbOk),
                        blocked_tags, dbOk)
    /\ UNCHANGED <<streamVars, tableVars, usageVars, sessions, gens, request>>

\* generateUserMessageHashtags(message, maxTags)
GenerateUserTags(message, maxTags, dbOk, pick) ==
    /\ returned = NoCall
    /\ returned' = Call("generateUserMessageHashtags", message, maxTags,
                        generateUserMessageHashtags(message, maxTags, blocked_tags,
                                                    tag_synonyms, dbOk, pick),
                        blocked_tags, dbOk)
    /\ UNCHANGED <<streamVars, tableVars, usageVars, sessions, gens, request>>

\* extractHashtags(response, maxTags)
ExtractResponseTags(response, maxTags, readOk, dbOk) ==
    /\ returned = NoCall
    /\ returned' = Call("extractHashtags", response, maxTags,
                        extractHashtags(response, maxTags, blocked_tags,
                                        tag_synonyms, readOk, dbOk),
                        blocked_tags, readOk /\ dbOk)
    /\ UNCHANGED <<streamVars, tableVars, usageVars, sessions, gens, request>>

\* strings given to formatHashtags
CandidateSpaced == <<"#", " ", "j", "s">>
FormatInputs ==
    {CandidateJs, CandidateUpper, CandidateBare, CandidateDouble, CandidateSpaced}
FormatLists == UNION {[1..n -> FormatInputs] : n \in 1..MaxCandidates}

\* formatHashtags(hashtags)
Format(hashtags) ==
    /\ returned = NoCall
    /\ returned' = Call("formatHashtags", hashtags, 0, formatHashtags(hashtags),
                         {}, TRUE)
    /\ UNCHANGED <<streamVars, tableVars, usageVars, sessions, gens, request>>

InitTagging ==
    /\ NoStream
    /\ NoOps
    /\ blocked_tags \in SUBSET {<<"j", "s">>, Javascript}
    /\ tag_synonyms \in {rows \in SUBSET SynonymRows : UniqueOriginals(rows)}
    /\ tags = <<>>
    /\ user_messages = <<>>
    /\ ollama_responses = <<>>
    /\ message_log = <<>>
    /\ returned = NoCall
    /\ request = NoRequest

NextTagging ==
    \/ \E hashtags \in CandidateLists, dbOk \in BOOLEAN : Resolve(hashtags, dbOk)
    \/ \E message \in Messages, maxTags \in MaxTagsInputs, dbOk \in BOOLEAN,
          pick \in 1..Len(generalTags) :
           GenerateUserTags(message, maxTags, dbOk, pick)
    \/ \E response \in Responses, maxTags \in MaxTagsInputs, readOk \in BOOLEAN,
          dbOk \in BOOLEAN :
           ExtractResponseTags(response, maxTags, readOk, dbOk)
    \/ \E hashtags \in FormatLists : Format(hashtags)

SpecTagging == InitTagging /\ [][NextTagging]_vars

\* what an earlier turn of another session left in the tables
OtherSession == "s2"
OtherMessageId == <<"m", "0">>
OtherUserTags == <<<<"#", "g", "r", "a", "p", "h", "q", "l">>>>
OtherResponseTags == <<<<"#", "g", "r", "a", "p", "h", "q", "l">>, <<"#", "c", "a", "c", "h", "i", "n", "g">>>>
OtherResponses ==
    <<ResponseRow(OtherSession, OtherMessageId, RespPlain, OtherResponseTags)>>
OtherLog ==
    <<LogRow(OtherSession, OtherMessageId, "user", MsgPlain, OtherUserTags),
      LogRow(OtherSession, OtherMessageId, "assistant", RespPlain,
             OtherResponseTags)>>
OtherTags == processTags(<<>>, OtherResponseTags)

\* names blockTag stored before the turn
BlockedBefore == {<<"g", "r", "a", "p", "h", "q", "l">>, <<"c", "a", "c", "h", "i", "n", "g">>}

\* one turn of streamCompletion with its failures: the message is saved and
\* tagged, the prompt is built and sent, the response is finalized
InitTurn ==
    /\ NoStream
    /\ NoOps
    /\ blocked_tags \in {{}, BlockedBefore}
    /\ tag_synonyms = SeedSynonyms
    /\ user_messages = <<>>
    /\ \/ ollama_responses = <<>> /\ message_log = <<>> /\ tags = <<>>
       \/ ollama_responses = OtherResponses /\ message_log = OtherLog
          /\ tags = OtherTags
    /\ returned = NoCall
    /\ request = NoRequest

NextTurn ==
    \/ \E message \in Messages, saveOk \in BOOLEAN, dbOk \in BOOLEAN,
          updated \in 0..2, lookupOk \in BOOLEAN, backendOk \in BOOLEAN,
          pick \in 1..Len(generalTags) :
           UserTurn(message, saveOk, dbOk, updated, lookupOk, backendOk, pick)
    \/ \E response \in Responses : Completed(response)
    \/ Finalization

SpecTurn == InitTurn /\ [][NextTurn]_vars

----------------------------------------------------------------------------
(* Saving messages with tags, adding and removing tags *)

TagSql      == <<"#", "s", "q", "l">>
TagSqlUpper == <<"#", "S", "Q", "L">>
TagCss      == <<"#", "c", "s", "s">>

\* tag lists given to the save operations
SavedTagLists == {<<>>, <<TagSql>>, <<TagCss>>, <<TagSql, TagSql, TagSqlUpper>>}

\* tags given to the add-tag and remove-tag operations
StoreTagInputs == {<<"s", "q", "l">>, TagSqlUpper, TagCss}

StoreIds == {FreshId(n) : n \in 1..MaxSaved}

InitStore ==
    /\ NoStream
    /\ NoOps
    /\ blocked_tags = {}
    /\ tag_synonyms = SeedSynonyms
    /\ tags = <<>>
    /\ user_messages = <<>>
    /\ ollama_responses = <<>>
    /\ message_log = <<>>
    /\ returned = NoCall
    /\ request = NoRequest

NextStore ==
    \/ \E hashtags \in SavedTagLists, saveOk \in BOOLEAN :
           SaveUserMessage(hashtags, saveOk)
    \/ \E hashtags \in SavedTagLists, saveOk \in BOOLEAN :
           SaveOllamaResponse(hashtags, saveOk)
    \/ \E tag \in StoreTagInputs, messageId \in StoreIds :
           AddTagRoute(tag, messageId)
    \/ \E tag \in StoreTagInputs, messageId \in StoreIds :
           AddTagToLastAssistantMessage(tag, messageId)
    \/ \E tag \in StoreTagInputs, messageId \in StoreIds :
           RemoveTagFromMessage(messageId, tag)
    \/ \E tag \in StoreTagInputs, messageId \in StoreIds :
           RemoveTagRoute(tag, messageId)
    \/ \E tag \in StoreTagInputs, messageId \in StoreIds :
           BlockTagRoute(tag, messageId)

SpecStore == InitStore /\ [][NextStore]_vars

----------------------------------------------------------------------------
(* Tag mutations of one assistant message that run at the same time *)

MaxRequests == 2

\* a request and where it stands; newTags is the list it computed from the
\* list it read
MutationRequest(kind, tag) ==
    [kind |-> kind, tag |-> tag, pc |-> "start", newTags |-> <<>>]

MutationRequests ==
    {MutationRequest("addTag", TagCss), MutationRequest("addTag", <<"a", "i">>),
     MutationRequest("removeTag", TagSql)}

\* POST /api/add-tag up to its SELECT: the checks, the read of the list and
\* the push of the new tag
AddTagSelect(o) ==
    /\ o \in DOMAIN ops
    /\ ops[o].kind = "addTag"
    /\ ops[o].pc = "start"
    /\ LET trimmed == Trim(ops[o].tag)
           formattedTag == IF StartsWithHash(trimmed) THEN trimmed
                           ELSE Hash \o trimmed
           cleanTag == ToLowerCase(StripOneHash(formattedTag))
           responseRows == SelectSeq(ollama_responses,
                                     LAMBDA row : row.message_id = MessageId)
           existingTags == responseRows[1].tags
       IN  IF \/ cleanTag \in blocked_tags
              \/ shouldExcludeWord(cleanTag)
              \/ responseRows = <<>>
              \/ \E i \in 1..Len(existingTags) :
                     ToLowerCase(existingTags[i]) = ToLowerCase(formattedTag)
           THEN ops' = [ops EXCEPT ![o].pc = "rejected"]
           ELSE ops' = [ops EXCEPT ![o].pc = "update",
                                   ![o].newTags = Append(existingTags, formattedTag)]
    /\ UNCHANGED <<streamVars, tableVars, returned, rowLock, usedBefore, sessions, gens, request>>

\* UPDATE ollama_responses SET tags = ? WHERE message_id = ?
AddTagUpdate(o) ==
    /\ o \in DOMAIN ops
    /\ ops[o].kind = "addTag"
    /\ ops[o].pc = "update"
    /\ ollama_responses' = SetTags(ollama_responses, MessageId, ops[o].newTags)
    /\ ops' = [ops EXCEPT ![o].pc = "updateLog"]
    /\ UNCHANGED <<streamVars, blocked_tags, tag_synonyms, tags, user_messages,
                   message_log, returned, rowLock, usedBefore, sessions, gens, request>>

\* UPDATE message_log SET tags = ? WHERE message_id = ? AND origin = "assistant"
AddTagUpdateLog(o) ==
    /\ o \in DOMAIN ops
    /\ ops[o].kind = "addTag"
    /\ ops[o].pc = "updateLog"
    /\ message_log' = SetLogTags(message_log, MessageId, "assistant", ops[o].newTags)
    /\ ops' = [ops EXCEPT ![o].pc = "done"]
    /\ UNCHANGED <<streamVars, blocked_tags, tag_synonyms, tags, user_messages,
                   ollama_responses, returned, rowLock, usedBefore, sessions, gens, request>>

\* removeTagFromMessage up to its SELECT on ollama_responses and the filter
RemoveTagSelect(o) ==
    /\ o \in DOMAIN ops
    /\ ops[o].kind = "removeTag"
    /\ ops[o].pc = "start"
    /\ LET tag == ops[o].tag
           messages == SelectSeq(ollama_responses,
                                 LAMBDA row : row.message_id = MessageId)
           tagToRemove == IF StartsWithHash(tag) THEN tag ELSE Hash \o tag
           Kept(t) == /\ ToLowerCase(t) # ToLowerCase(tagToRemove)
                      /\ ToLowerCase(t) # ToLowerCase(tag)
       IN  IF messages = <<>>
           THEN ops' = [ops EXCEPT ![o].pc = "rejected"]
           ELSE ops' = [ops EXCEPT ![o].pc = "update",
                                   ![o].newTags = SelectSeq(messages[1].tags, Kept)]
    /\ UNCHANGED <<streamVars, tableVars, returned, rowLock, usedBefore, sessions, gens, request>>

\* UPDATE ollama_responses SET tags = ? WHERE message_id = ?
RemoveTagUpdate(o) ==
    /\ o \in DOMAIN ops
    /\ ops[o].kind = "removeTag"
    /\ ops[o].pc = "update"
    /\ ollama_responses' = SetTags(ollama_responses, MessageId, ops[o].newTags)
    /\ ops' = [ops EXCEPT ![o].pc = "done"]
    /\ UNCHANGED <<streamVars, blocked_tags, tag_synonyms, tags, user_messages,
                   message_log, returned, rowLock, usedBefore, sessions, gens, request>>

\* the assistant message the requests are about, as saveOllamaResponse stored it
InitMutations ==
    /\ NoStream
    /\ blocked_tags = {}
    /\ tag_synonyms = SeedSynonyms
    /\ tags = <<>>
    /\ user_messages = <<>>
    /\ \E tagList \in {<<TagSql>>, <<TagSql, TagCss>>} :
          /\ ollama_responses = <<ResponseRow(SessionId, MessageId, RespPlain, tagList)>>
          /\ message_log = <<LogRow(SessionId, MessageId, "assistant", RespPlain,
                                    tagList)>>
    /\ returned = NoCall
    /\ request = NoRequest
    /\ ops \in [1..MaxRequests -> MutationRequests]
    /\ rowLock = 0
    /\ usedBefore = 0
    /\ sessions = {}
    /\ gens = <<>>

NextMutations ==
    \/ \E o \in 1..MaxRequests : AddTagSelect(o)
    \/ \E o \in 1..MaxRequests : AddTagUpdate(o)
    \/ \E o \in 1..MaxRequests : AddTagUpdateLog(o)
    \/ \E o \in 1..MaxRequests : RemoveTagSelect(o)
    \/ \E o \in 1..MaxRequests : RemoveTagUpdate(o)

SpecMutations == InitMutations /\ [][NextMutations]_vars

----------------------------------------------------------------------------
(* Sessions: the connection handler, sendMessage, userMessage and the
   session check of streamCompletion *)

\* a row of sessions; id is the primary key
SessionRow(id, clientInfo) == [id |-> id, client_info |-> clientInfo]

HasSession(id) == \E row \in sessions : row.id = id

\* uuidv4() inside createSession: an id no row has and no socket was given
Uuid(n) == "u" \o ToString(n)

NewUuid(table) == Uuid(Cardinality(table) + 1)

\* createSession(clientInfo): INSERT INTO sessions (id, client_info) VALUES
\* (uuidv4(), clientInfo)
createSession(table, clientInfo) ==
    table \cup {SessionRow(NewUuid(table), clientInfo)}

\* a message event on the socket and where its handler stands
MessageEvent(kind) == [kind |-> kind, sessionId |-> SessionId, pc |-> "start"]

MessageEvents == {MessageEvent("sendMessage"), MessageEvent("userMessage")}

\* socket.emit('error', {message: 'Session error', ...})
SessionErrorEvent ==
    [event |-> "error", messageId |-> <<>>, chunk |-> <<>>, done |-> FALSE,
     hashtags |-> <<>>]

\* createOrValidateSession: SELECT id, created_at, last_activity FROM
\* sessions WHERE id = ?
ValidateSelect(o) ==
    /\ o \in DOMAIN ops
    /\ ops[o].kind = "sendMessage"
    /\ ops[o].pc = "start"
    /\ ops' = [ops EXCEPT ![o].pc = IF HasSession(ops[o].sessionId) THEN "touch"
                                    ELSE "insert"]
    /\ UNCHANGED <<streamVars, tableVars, returned, rowLock, usedBefore, request,
                   sessions, gens>>

\* createOrValidateSession: UPDATE sessions SET last_activity = NOW(), and
\* the return to sendMessage, which calls streamCompletion
ValidateTouch(o) ==
    /\ o \in DOMAIN ops
    /\ ops[o].pc = "touch"
    /\ ops' = [ops EXCEPT ![o].pc = "check"]
    /\ UNCHANGED <<streamVars, tableVars, returned, rowLock, usedBefore, request,
                   sessions, gens>>

\* createOrValidateSession: INSERT INTO sessions (id, created_at,
\* last_activity); a duplicate key makes it throw, and sendMessage answers
\* with a session error and returns
ValidateInsert(o) ==
    /\ o \in DOMAIN ops
    /\ ops[o].pc = "insert"
    /\ IF HasSession(ops[o].sessionId)
       THEN /\ ops' = [ops EXCEPT ![o].pc = "sessionError"]
            /\ emitted' = Append(emitted, SessionErrorEvent)
            /\ UNCHANGED sessions
       ELSE /\ ops' = [ops EXCEPT ![o].pc = "check"]
            /\ sessions' = sessions \cup {SessionRow(ops[o].sessionId, "")}
            /\ UNCHANGED emitted
    /\ UNCHANGED <<previewVars, stream, pos, streamState, received, buffer,
                   fullResponse, chunkCount, tasks, tableVars, returned, rowLock,
                   usedBefore, gens, request>>

\* streamCompletion: SELECT id FROM sessions WHERE id = ?, in its own
\* try/catch.  userMessage calls streamCompletion at once.
SessionCheck(o, selectOk) ==
    /\ o \in DOMAIN ops
    /\ \/ ops[o].pc = "check"
       \/ ops[o].kind = "userMessage" /\ ops[o].pc = "start"
    /\ LET sessionExists == selectOk /\ HasSession(ops[o].sessionId)
       IN  ops' = [ops EXCEPT ![o].pc = IF sessionExists THEN "save" ELSE "create"]
    /\ UNCHANGED <<streamVars, tableVars, returned, rowLock, usedBefore, request,
                   sessions, gens>>

\* streamCompletion: await db.createSession(sessionId); a failure is thrown
\* on to the outer catch, which emits an error
CreateMissingSession(o, insertOk) ==
    /\ o \in DOMAIN ops
    /\ ops[o].pc = "create"
    /\ IF insertOk
       THEN /\ sessions' = createSession(sessions, ops[o].sessionId)
            /\ ops' = [ops EXCEPT ![o].pc = "save"]
            /\ UNCHANGED emitted
       ELSE /\ ops' = [ops EXCEPT ![o].pc = "failed"]
            /\ emitted' = Append(emitted, SetupErrorEvent)
            /\ UNCHANGED sessions
    /\ UNCHANGED <<previewVars, stream, pos, streamState, received, buffer,
                   fullResponse, chunkCount, tasks, tableVars, returned, rowLock,
                   usedBefore, gens, request>>

\* streamCompletion: await db.saveUserMessage(messageParams); a failure is
\* thrown on to the outer catch
SaveFirstMessage(o, saveOk) ==
    /\ o \in DOMAIN ops
    /\ ops[o].pc = "save"
    /\ IF saveOk
       THEN /\ user_messages' =
                  Append(user_messages,
                         MessageRow(ops[o].sessionId, FreshId(Len(user_messages) + 1),
                                    MsgShort, <<>>))
            /\ message_log' =
                  Append(message_log,
                         LogRow(ops[o].sessionId, FreshId(Len(user_messages) + 1),
                                "user", MsgShort, <<>>))
            /\ ops' = [ops EXCEPT ![o].pc = "saved"]
            /\ UNCHANGED emitted
       ELSE /\ ops' = [ops EXCEPT ![o].pc = "failed"]
            /\ emitted' = Append(emitted, SetupErrorEvent)
            /\ UNCHANGED <<user_messages, message_log>>
    /\ UNCHANGED <<previewVars, stream, pos, streamState, received, buffer,
                   fullResponse, chunkCount, tasks, blocked_tags, tag_synonyms,
                   tags, ollama_responses, returned, rowLock, usedBefore, request,
                   sessions, gens>>

\* a socket whose session id is SessionId: the connection handler's
\* db.createSession(sessionId) has failed, has succeeded, or an earlier
\* message has already created the session
InitSessions ==
    /\ NoStream
    /\ NoTables
    /\ request = NoRequest
    /\ ops \in [1..MaxRequests -> MessageEvents]
    /\ rowLock = 0
    /\ usedBefore = 0
    /\ sessions \in {{}, createSession({}, SessionId),
                      {SessionRow(SessionId, "")}}
    /\ gens = <<>>

NextSessions ==
    \/ \E o \in 1..MaxRequests : ValidateSelect(o)
    \/ \E o \in 1..MaxRequests : ValidateTouch(o)
    \/ \E o \in 1..MaxRequests : ValidateInsert(o)
    \/ \E o \in 1..MaxRequests, selectOk \in BOOLEAN : SessionCheck(o, selectOk)
    \/ \E o \in 1..MaxRequests, insertOk \in BOOLEAN :
           CreateMissingSession(o, insertOk)
    \/ \E o \in 1..MaxRequests, saveOk \in BOOLEAN : SaveFirstMessage(o, saveOk)

SpecSessions == InitSessions /\ [][NextSessions]_vars

----------------------------------------------------------------------------
(* saveUserMessage and saveOllamaResponse statement by statement: the
   transaction's writes are made in place and undone by a rollback *)

\* a call and where it stands.  counted: the tag names the open transaction
\* has upserted (it holds the locks of their rows); inTx: the transaction is
\* open; next: the tag processTags is at; kept: the tag names upserted after
\* the server has rolled the transaction back (each is committed at once)
SaveCall(kind, id, content, hashtags) ==
    [kind |-> kind, messageId |-> id, content |-> content, hashtags |-> hashtags,
     pc |-> "begin", counted |-> <<>>, inTx |-> FALSE, next |-> 1, kept |-> <<>>]

SaveContents == {MsgShort, <<>>}

MaxSaveTags == 2

SaveTagLists == {<<>>, <<TagSql, TagCss>>, <<TagCss, TagSql>>}

SaveCalls(o) ==
    {SaveCall(kind, FreshId(o), content, hashtags) :
        kind \in {"saveUserMessage", "saveOllamaResponse"},
        content \in SaveContents, hashtags \in SaveTagLists}

\* ROLLBACK, for the rows the transaction of the save of id has inserted
UndoRows(rows, id) == SelectSeq(rows, LAMBDA row : row.message_id # id)

\* ROLLBACK, for the upserts of the transaction: a count goes down by one and
\* a row the transaction has inserted goes away
RECURSIVE UndoTags(_, _)
UndoTags(table, counted) ==
    IF counted = <<>> THEN table
    ELSE LET key == ToLowerCase(Head(counted))
             rest == UndoTags(table, Tail(counted))
         IN  IF rest[key] = 1
             THEN [k \in DOMAIN rest \ {key} |-> rest[k]]
             ELSE [rest EXCEPT ![key] = @ - 1]

\* the name processTags is about to upsert: tag.replace(/^#/, ''), under the
\* case-insensitive collation of tag_name
NextName(op) == ToLowerCase(StripOneHash(op.hashtags[op.next]))

\* the row of `name` is locked by the open transaction of another call
LockedByOther(o, name) ==
    \E p \in DOMAIN ops \ {o} :
        /\ ops[p].inTx
        /\ \E k \in 1..Len(ops[p].counted) : ToLowerCase(ops[p].counted[k]) = name

\* call o waits for a row that call p has locked
WaitsFor(o, p) ==
    /\ ops[o].pc = "tags"
    /\ ops[p].inTx
    /\ \E k \in 1..Len(ops[p].counted) :
          ToLowerCase(ops[p].counted[k]) = NextName(ops[o])

\* processTags has gone through the statement of the tag it was at
AfterTag(op) ==
    IF op.next = Len(op.hashtags) THEN [op EXCEPT !.pc = "commit"]
    ELSE [op EXCEPT !.next = @ + 1]

\* the validation, beginTransaction and the INSERT of the message row
InsertMessage(o, insertOk) ==
    /\ o \in DOMAIN ops
    /\ ops[o].pc = "begin"
    /\ IF ops[o].content = <<>>
       THEN /\ ops' = [ops EXCEPT ![o].pc = "thrown"]
            /\ UNCHANGED <<user_messages, ollama_responses>>
       ELSE IF ~insertOk
       THEN /\ ops' = [ops EXCEPT ![o].pc = "rollback"]
            /\ UNCHANGED <<user_messages, ollama_responses>>
       ELSE /\ ops' = [ops EXCEPT ![o].pc = "log", ![o].inTx = TRUE]
            /\ IF ops[o].kind = "saveUserMessage"
               THEN /\ user_messages' =
                          Append(user_messages,
                                 MessageRow(SessionId, ops[o].messageId,
                                            ops[o].content, ops[o].hashtags))
                    /\ UNCHANGED ollama_responses
               ELSE /\ ollama_responses' =
                          Append(ollama_responses,
                                 ResponseRow(SessionId, ops[o].messageId,
                                             ops[o].content, ops[o].hashtags))
                    /\ UNCHANGED user_messages
    /\ UNCHANGED <<streamVars, blocked_tags, tag_synonyms, tags, message_log,
                   returned, rowLock, usedBefore, request, sessions, gens>>

\* the INSERT into message_log
InsertLog(o, insertOk) ==
    /\ o \in DOMAIN ops
    /\ ops[o].pc = "log"
    /\ IF insertOk
       THEN /\ message_log' =
                  Append(message_log,
                         LogRow(SessionId, ops[o].messageId,
                                IF ops[o].kind = "saveUserMessage" THEN "user"
                                ELSE "assistant",
                                ops[o].content, ops[o].hashtags))
            /\ ops' = [ops EXCEPT ![o].pc = IF ops[o].hashtags = <<>> THEN "commit"
                                            ELSE "tags"]
       ELSE /\ ops' = [ops EXCEPT ![o].pc = "rollback"]
            /\ UNCHANGED message_log
    /\ UNCHANGED <<streamVars, blocked_tags, tag_synonyms, tags, user_messages,
                   ollama_responses, returned, rowLock, usedBefore, request,
                   sessions, gens>>

\* processTags: one INSERT ... ON DUPLICATE KEY UPDATE.  It waits while
\* another transaction holds the lock of the row; an error is caught and the
\* loop goes on.
CountTag(o, upsertOk) ==
    /\ o \in DOMAIN ops
    /\ ops[o].pc = "tags"
    /\ ~LockedByOther(o, NextName(ops[o]))
    /\ IF upsertOk
       THEN /\ tags' = UpsertTag(tags, NextName(ops[o]))
            /\ ops' = [ops EXCEPT ![o] =
                          AfterTag(IF ops[o].inTx
                                   THEN [@ EXCEPT !.counted =
                                            Append(@, NextName(ops[o]))]
                                   ELSE [@ EXCEPT !.kept =
                                            Append(@, NextName(ops[o]))])]
       ELSE /\ ops' = [ops EXCEPT ![o] = AfterTag(@)]
            /\ UNCHANGED tags
    /\ UNCHANGED <<streamVars, blocked_tags, tag_synonyms, user_messages,
                   ollama_responses, message_log, returned, rowLock, usedBefore,
                   request, sessions, gens>>

\* processTags: two transactions wait for each other's rows.  The server
\* rolls the whole transaction of one of them back and fails its statement;
\* processTags catches the error and goes on.
Deadlock(o) ==
    /\ o \in DOMAIN ops
    /\ ops[o].pc = "tags"
    /\ ops[o].inTx
    /\ \E p \in DOMAIN ops \ {o} : WaitsFor(o, p) /\ WaitsFor(p, o)
    /\ user_messages' = UndoRows(user_messages, ops[o].messageId)
    /\ ollama_responses' = UndoRows(ollama_responses, ops[o].messageId)
    /\ message_log' = UndoRows(message_log, ops[o].messageId)
    /\ tags' = UndoTags(tags, ops[o].counted)
    /\ ops' = [ops EXCEPT ![o] = AfterTag([@ EXCEPT !.counted = <<>>,
                                                    !.inTx = FALSE])]
    /\ UNCHANGED <<streamVars, blocked_tags, tag_synonyms, returned, rowLock,
                   usedBefore, request, sessions, gens>>

\* await connection.commit(); then updateSessionActivity, which catches its
\* own errors, and the return
CommitSave(o, commitOk) ==
    /\ o \in DOMAIN ops
    /\ ops[o].pc = "commit"
    /\ ops' = [ops EXCEPT ![o].pc = IF commitOk THEN "returned" ELSE "rollback",
                           ![o].inTx = (@ /\ ~commitOk)]
    /\ UNCHANGED <<streamVars, tableVars, returned, rowLock, usedBefore, request,
                   sessions, gens>>

\* catch (error): await connection.rollback(); throw error
RollbackSave(o) ==
    /\ o \in DOMAIN ops
    /\ ops[o].pc = "rollback"
    /\ user_messages' = UndoRows(user_messages, ops[o].messageId)
    /\ ollama_responses' = UndoRows(ollama_responses, ops[o].messageId)
    /\ message_log' = UndoRows(message_log, ops[o].messageId)
    /\ tags' = UndoTags(tags, ops[o].counted)
    /\ ops' = [ops EXCEPT ![o].pc = "thrown", ![o].counted = <<>>,
                           ![o].inTx = FALSE]
    /\ UNCHANGED <<streamVars, blocked_tags, tag_synonyms, returned, rowLock,
                   usedBefore, request, sessions, gens>>

InitSave ==
    /\ NoStream
    /\ NoTables
    /\ request = NoRequest
    /\ ops \in {f \in [1..MaxRequests -> UNION {SaveCalls(o) : o \in 1..MaxRequests}] :
                    \A o \in 1..MaxRequests : f[o] \in SaveCalls(o)}
    /\ rowLock = 0
    /\ usedBefore = 0
    /\ sessions = {SessionRow(SessionId, "")}
    /\ gens = <<>>

NextSave ==
    \/ \E o \in 1..MaxRequests, insertOk \in BOOLEAN : InsertMessage(o, insertOk)
    \/ \E o \in 1..MaxRequests, insertOk \in BOOLEAN : InsertLog(o, insertOk)
    \/ \E o \in 1..MaxRequests, upsertOk \in BOOLEAN : CountTag(o, upsertOk)
    \/ \E o \in 1..MaxRequests : Deadlock(o)
    \/ \E o \in 1..MaxRequests, commitOk \in BOOLEAN : CommitSave(o, commitOk)
    \/ \E o \in 1..MaxRequests : RollbackSave(o)

SpecSave == InitSave /\ [][NextSave]_vars

----------------------------------------------------------------------------
(* Two generations in flight on one socket: every streamCompletion call has
   its own messageId, fullResponse, chunkCount and buffer, and its handlers
   close over them *)

Generations == {1, 2}

\* const messageId = crypto.randomUUID() of the call
GenMessageId(g) == IF g = 1 THEN MessageId ELSE OtherMessageId

GenStream(g) == IF g = 1 THEN RespA \o RespB \o DoneRec
                ELSE RespB \o RespWide \o DoneRec

\* the per-call state after the request was answered
NewGeneration(g) ==
    [messageId |-> GenMessageId(g), stream |-> GenStream(g), pos |-> 0,
     streamState |-> "open", received |-> <<>>, buffer |-> <<>>,
     fullResponse |-> <<>>, chunkCount |-> 0, tasks |-> <<>>]

\* events emitted by the handlers of the first call, whichever call runs
FromFirstGeneration(events, messageId) == events

\* the events a handler emits carry the messageId its call closed over
FromGeneration(events, messageId) ==
    [i \in 1..Len(events) |-> [events[i] EXCEPT !.messageId = messageId]]

\* response.data.on('data', chunk => ...) of call g for an event of k bytes
GenData(g, k) ==
    /\ g \in DOMAIN gens
    /\ gens[g].streamState = "open"
    /\ gens[g].pos + k <= Len(gens[g].stream)
    /\ LET me    == gens[g]
           chunk == SubSeq(me.stream, me.pos + 1, me.pos + k)
           text  == Utf8Decode(chunk)
           buf   == me.buffer \o text
           st    == ScanBuffer(buf, 1, 1,
                       [fullResponse |-> me.fullResponse,
                        chunkCount |-> me.chunkCount,
                        out |-> <<>>, calls |-> <<>>, posts |-> <<>>, startIdx |-> 1])
       IN  /\ gens' = [gens EXCEPT ![g] =
                  [me EXCEPT !.pos = me.pos + k,
                             !.received = me.received \o text,
                             !.buffer = KeepRemainder(buf, st.startIdx),
                             !.fullResponse = st.fullResponse,
                             !.chunkCount = st.chunkCount,
                             !.tasks = me.tasks \o
                                 [j \in 1..Len(st.calls) |->
                                     NewTask(st.calls[j].text,
                                             Len(emitted) + st.calls[j].after)]]]
           /\ emitted' = emitted \o FromGeneration(st.out, me.messageId)
    /\ UNCHANGED <<previewVars, stream, pos, streamState, received, buffer,
                   fullResponse, chunkCount, tasks, tableVars, returned, usageVars,
                   request, sessions>>

\* response.data.on('error', ...) of call g
GenStreamError(g) ==
    /\ g \in DOMAIN gens
    /\ gens[g].streamState = "open"
    /\ gens' = [gens EXCEPT ![g].streamState = "errored"]
    /\ emitted' = Append(emitted, ErrorEvent)
    /\ UNCHANGED <<previewVars, stream, pos, streamState, received, buffer,
                   fullResponse, chunkCount, tasks, tableVars, returned, usageVars,
                   request, sessions>>

\* processCompletedResponse of call g up to its emit: extractHashtags,
\* saveOllamaResponse and updateSessionActivity, one after the other
GenFinalize(g, t, readOk, dbOk, saveOk) ==
    /\ g \in DOMAIN gens
    /\ t \in 1..Len(gens[g].tasks)
    /\ gens[g].tasks[t].pc = "extract"
    /\ LET text == gens[g].tasks[t].text
           finalTags == extractHashtags(text, DefaultMaxTags, blocked_tags,
                                        tag_synonyms, readOk, dbOk)
       IN  /\ gens' = [gens EXCEPT ![g].tasks[t].pc = "emit",
                                   ![g].tasks[t].tags = finalTags]
           /\ returned' = Call("extractHashtags", text, DefaultMaxTags, finalTags,
                                blocked_tags, readOk /\ dbOk)
           /\ IF text # <<>> /\ saveOk
              THEN /\ ollama_responses' =
                         Append(ollama_responses,
                                ResponseRow(SessionId, gens[g].messageId, text,
                                            finalTags))
                   /\ message_log' =
                         Append(message_log,
                                LogRow(SessionId, gens[g].messageId, "assistant",
                                       text, finalTags))
                   /\ tags' = processTags(tags, finalTags)
              ELSE UNCHANGED <<ollama_responses, message_log, tags>>
    /\ UNCHANGED <<streamVars, blocked_tags, tag_synonyms, user_messages,
                   usageVars, request, sessions>>

\* socket.emit('messageChunk', {chunk: '', messageId, done: true, ...}) of
\* call g
GenEmitTerminal(g, t) ==
    /\ g \in DOMAIN gens
    /\ t \in 1..Len(gens[g].tasks)
    /\ gens[g].tasks[t].pc = "emit"
    /\ gens' = [gens EXCEPT ![g].tasks[t].pc = "finished"]
    /\ emitted' = emitted \o FromGeneration(<<TerminalEvent(gens[g].tasks[t].tags)>>,
                                             gens[g].messageId)
    /\ UNCHANGED <<previewVars, stream, pos, streamState, received, buffer,
                   fullResponse, chunkCount, tasks, tableVars, returned, usageVars,
                   request, sessions>>

InitGenerations ==
    /\ NoStream
    /\ NoTables
    /\ ops = <<>>
    /\ rowLock = 0
    /\ usedBefore = 0
    /\ sessions = {SessionRow(SessionId, "")}
    /\ request = [state |-> "sent", prompt |-> MsgShort]
    /\ gens = [g \in Generations |-> NewGeneration(g)]

NextGenerations ==
    \/ \E g \in Generations : \E k \in 1..Len(GenStream(g)) : GenData(g, k)
    \/ \E g \in Generations : GenStreamError(g)
    \/ \E g \in Generations, t \in 1..MaxResponses, readOk \in BOOLEAN,
          dbOk \in BOOLEAN, saveOk \in BOOLEAN :
           GenFinalize(g, t, readOk, dbOk, saveOk)
    \/ \E g \in Generations, t \in 1..MaxResponses : GenEmitTerminal(g, t)

SpecGenerations == InitGenerations /\ [][NextGenerations]_vars

----------------------------------------------------------------------------
(* Calls of findRelatedConversation on logs of several sessions *)

\* the number of rows of message_log
MaxLog == 3

\* message ids: one that starts with a digit, one that does not
IdDigit == <<"1", "a">>
IdPlain == <<"b", "2">>
ResponseId == <<"r", "1">>

TagsReact == << <<"#", "r", "e", "a", "c", "t">> >>
SearchShort == << <<"#", "a", "i">> >>
SearchUpper == << <<"#", "G", "r", "a", "p", "h", "Q", "L", " ">> >>

LogRows ==
    {LogRow(session, id, origin, MsgPlain, tagList) :
        session \in {SessionId, OtherSession}, id \in {IdDigit, IdPlain},
        origin \in {"user", "assistant"}, tagList \in {OtherUserTags, TagsReact}}

Logs == UNION {[1..n -> LogRows] : n \in 0..MaxLog}

\* a response saved with the numeric id of its user message
LinkedResponse ==
    [ResponseRow(OtherSession, ResponseId, RespPlain, OtherResponseTags)
        EXCEPT !.user_message_id = 1]

\* findRelatedConversation(userHashtags, SessionId, limit); the result is
\* kept in the tags field of the call, the limit in its maxTags field
FindRelated(userHashtags, limit, lookupOk) ==
    /\ returned = NoCall
    /\ returned' = Call("findRelatedConversation", userHashtags, limit,
                         findRelatedConversation(userHashtags, SessionId, limit,
                                                 message_log, ollama_responses,
                                                 lookupOk),
                         {}, lookupOk)
    /\ UNCHANGED <<streamVars, tableVars, usageVars, sessions, gens, request>>

InitRelated ==
    /\ NoStream
    /\ NoOps
    /\ blocked_tags = {}
    /\ tag_synonyms = {}
    /\ tags = <<>>
    /\ user_messages = <<>>
    /\ message_log \in Logs
    /\ ollama_responses \in {<<>>, <<LinkedResponse>>}
    /\ returned = NoCall
    /\ request = NoRequest

NextRelated ==
    \E userHashtags \in {OtherUserTags, SearchUpper, SearchShort},
       limit \in {1, DefaultLimit}, lookupOk \in BOOLEAN :
        FindRelated(userHashtags, limit, lookupOk)

SpecRelated == InitRelated /\ [][NextRelated]_vars



\* MaxOps operations record a use of UsageTag at the same time
OpKinds == {"processTags", "addManualTag"}

InitUsage ==
    /\ NoStream
    /\ blocked_tags = {}
    /\ tag_synonyms = SeedSynonyms
    /\ usedBefore \in {0, 1}
    /\ tags = IF usedBefore = 0 THEN <<>> ELSE (UsageTag :> usedBefore)
    /\ user_messages = <<>>
    /\ ollama_responses = <<>>
    /\ message_log = <<>>
    /\ returned = NoCall
    /\ request = NoRequest
    /\ ops \in [1..MaxOps -> {[kind |-> k, pc |-> "start"] : k \in OpKinds}]
    /\ rowLock = 0
    /\ sessions = {}
    /\ gens = <<>>

NextUsage ==
    \/ \E o \in 1..MaxOps : UpsertInTransaction(o)
    \/ \E o \in 1..MaxOps : Commit(o)
    \/ \E o \in 1..MaxOps : ManualUpdate(o)
    \/ \E o \in 1..MaxOps : ManualInsert(o)

SpecUsage == InitUsage /\ [][NextUsage]_vars

----------------------------------------------------------------------------
(* Reference readings of a whole text, used to state the streaming claims *)

\* the complete (newline-terminated) segments of a text, in order
RECURSIVE Segments(_)
Segments(t) ==
    LET nl == {i \in 1..Len(t) : t[i] = Newline}
    IN  IF nl = {} THEN <<>>
        ELSE LET i == CHOOSE x \in nl : \A y \in nl : x <= y
             IN  <<SubSeq(t, 1, i - 1)>> \o Segments(SubSeq(t, i + 1, Len(t)))

\* what follows the last newline of a text
RECURSIVE Unterminated(_)
Unterminated(t) ==
    LET nl == {i \in 1..Len(t) : t[i] = Newline}
    IN  IF nl = {} THEN t
        ELSE LET i == CHOOSE x \in nl : \A y \in nl : x <= y
             IN  Unterminated(SubSeq(t, i + 1, Len(t)))

IsInvalidSegment(seg) == Trim(seg) # <<>> /\ ~IsJson(Trim(seg))

\* the records of a text that parse, in order
ParsedRecords(t) == SelectSeq(SeqMap(Trim, Segments(t)), IsJson)

\* the non-empty response texts of the records of a text, in order
ExpectedFragments(t) ==
    SelectSeq(SeqMap(JsonResponse, ParsedRecords(t)), LAMBDA r : r # <<>>)

\* the number of records of a text that carry done=true
ExpectedDone(t) == Len(SelectSeq(ParsedRecords(t), JsonDone))

\* a text without its invalid segments (and their newlines)
StripInvalid(t) ==
    Concat(SeqMap(LAMBDA seg : Append(seg, Newline),
                  SelectSeq(Segments(t), LAMBDA seg : ~IsInvalidSegment(seg))))
    \o Unterminated(t)

Quiescent ==
    /\ streamState # "open"
    /\ \A t \in 1..Len(tasks) : tasks[t].pc = "finished"

----------------------------------------------------------------------------
(* Claims about the streaming assembler *)

\* C1: the fragments (messageChunk, done=false) sent to the client are, in
\* order and one for one, the non-empty response texts of the records that
\* arrived newline-terminated and parsed: none reordered, duplicated, dropped.
C1_FragmentsInArrivalOrder ==
    Fragments(emitted) = ExpectedFragments(received)

\* C1 witness: two different fragments were forwarded, the second data event
\* having ended in the middle of a record.
C1_Witness ==
    /\ Len(Fragments(emitted)) >= 2
    /\ Fragments(emitted)[1] # Fragments(emitted)[2]
    /\ buffer # <<>>

\* C2: a generation produces exactly one terminal notification: never more
\* than one, and one once the stream is over and every finalization has run,
\* whatever records (several with done=true included) the stream carried.
C2_ExactlyOneTerminal ==
    /\ Count(emitted, IsTerminal) <= 1
    /\ (Quiescent /\ ExpectedDone(received) >= 1) => Count(emitted, IsTerminal) = 1

\* C3: no fragment (done=false) is sent after the terminal notification
\* (done=true) of the generation.
C3_NoFragmentAfterTerminal ==
    \A i, j \in 1..Len(emitted) :
        (i < j /\ IsTerminal(emitted[i])) => ~IsFragment(emitted[j])

\* C4: at every point the accumulated text is the concatenation of the
\* fragments forwarded so far and chunkCount is their number, and the text
\* handed to a finalization is the concatenation of the fragments forwarded
\* before it was called.
C4_AccumulatedText ==
    /\ fullResponse = Concat(Fragments(emitted))
    /\ chunkCount = Len(Fragments(emitted))
    /\ \A t \in 1..Len(tasks) :
          tasks[t].text = Concat(Fragments(SubSeq(emitted, 1, tasks[t].startedAt)))

\* C4 witness: fragments a then b were forwarded and a finalization was
\* handed ab.
C4_Witness ==
    /\ Fragments(emitted) = << <<"a">>, <<"b">> >>
    /\ \E t \in 1..Len(tasks) : tasks[t].text = <<"a", "b">>

\* C8: when the stream raises an error before the terminal notification was
\* sent, the client gets one error notification, no assistant row of the
\* generation is (or gets) persisted and nothing is emitted after the error.
C8_ErrorClosesGeneration ==
    (streamState = "errored" /\
     \E i \in 1..Len(emitted) :
        IsError(emitted[i]) /\ \A j \in 1..(i - 1) : ~IsTerminal(emitted[j]))
    => /\ Count(emitted, IsError) = 1
       /\ ollama_responses = <<>>
       /\ \A r \in 1..Len(message_log) : message_log[r].origin # "assistant"
       /\ IsError(emitted[Len(emitted)])

\* C9: a data event has the effect it would have had without the invalid
\* segments it completes: they emit nothing, change neither the accumulated
\* text nor chunkCount, and the segments after them are processed as usual.
C9_InvalidSegmentDiscarded ==
    [][pos' > pos =>
         \A text \in {SubSeq(received', Len(received) + 1, Len(received'))} :
         \A clean \in {StripInvalid(buffer \o text)} :
         \A st \in {ScanBuffer(clean, 1, 1,
                         [fullResponse |-> fullResponse, chunkCount |-> chunkCount,
                          out |-> <<>>, calls |-> <<>>, posts |-> <<>>, startIdx |-> 1])} :
             /\ fullResponse' = st.fullResponse
             /\ chunkCount' = st.chunkCount
             /\ emitted' = emitted \o st.out
             /\ Len(tasks') = Len(tasks) + Len(st.calls)
             /\ buffer' = KeepRemainder(clean, st.startIdx)
             /\ streamState' = streamState]_vars

\* C9 witness: an invalid segment arrived, then a record whose fragment was
\* forwarded.
C9_Witness ==
    /\ Len(received) >= 3
    /\ SubSeq(received, 1, 3) = <<"{", "a", Newline>>
    /\ Fragments(emitted) = << <<"b">> >>

\* C10: the forwarded fragments and the finalizations started depend only on
\* the bytes delivered so far, not on how data events cut them: they are
\* those of the delivered bytes read as one piece.
C10_CutIndependent ==
    LET whole == Utf8Decode(SubSeq(stream, 1, pos))
    IN  /\ Fragments(emitted) = ExpectedFragments(whole)
        /\ Len(tasks) = ExpectedDone(whole)


----------------------------------------------------------------------------
(* Claims about the tagging pipeline and the tags table *)

\* the name of a tag: its leading '#' characters removed, lower-cased
TagName(tag) == ToLowerCase(StripHashes(tag))

\* C5: no list the tagging pipeline returns contains a tag whose name is in
\* the blocked-tag table at the time of the call (the pipeline's queries
\* succeeding).
C5_NoBlockedTagReturned ==
    returned.dbOk =>
        \A i \in 1..Len(returned.tags) :
            TagName(returned.tags[i]) \notin BlockedNames(returned.blocked)

\* C6: when the concurrent recordings of a use of one tag name have all
\* ended, each of them has succeeded and the tag's usage count is higher
\* than before by their number.
C6_NoLostOrFailedRecording ==
    (ops # <<>> /\ \A o \in 1..Len(ops) : ops[o].pc \in {"done", "failed"}) =>
        /\ \A o \in 1..Len(ops) : ops[o].pc = "done"
        /\ UsageCount(tags) = usedBefore + Len(ops)

StoredTags ==
    UNION { Range(user_messages[i].tags) : i \in 1..Len(user_messages) }
    \cup UNION { Range(ollama_responses[i].tags) : i \in 1..Len(ollama_responses) }
    \cup UNION { Range(message_log[i].tags) : i \in 1..Len(message_log) }
    \cup { Hash \o name : name \in DOMAIN tags }

\* C7: no tag whose name is shorter than 3 characters, is all digits or is
\* a stop word is in a stored message's tag list or in the tags table.
C7_NoExcludedTagStored ==
    \A tag \in StoredTags : ~shouldExcludeWord(StripHashes(tag))

----------------------------------------------------------------------------
(* Claims about a whole turn *)

TurnBegun == request.state # "none"

\* C11: a persistence failure during a turn never aborts the response: once
\* streamCompletion has run, the prompt was sent to the backend (the
\* backend's own refusal aside), with no error notification for a request
\* that was sent, and every finalization that ran to its end sent its
\* terminal notification.
C11_PersistenceFailureNeverAborts ==
    TurnBegun =>
        /\ request.state \in {"sent", "refused"}
        /\ request.state = "sent" => Count(emitted, IsError) = 0
        /\ Count(emitted, IsTerminal) =
               Cardinality({t \in 1..Len(tasks) : tasks[t].pc = "finished"})

\* the candidates extractHashtags finds in a response: the tags of its
\* #HASHTAGS section or its inline hashtags that pass the exclusion filter,
\* its keywords when it has neither
Candidates(response) ==
    LET found == extractHashtagsFromResponse(response)
    IN  IF found = <<>> THEN extractKeywords(response)
        ELSE SelectSeq(found, NotExcluded)

\* C12: the resolver, given a non-empty list of blocked candidates, returns
\* the one default tag, and every tag list extractHashtags produced for a
\* response in which a candidate existed is non-empty.
C12_AtLeastOneTag ==
    /\ \A name \in blocked_tags :
          processHashtags(<<Hash \o name>>, blocked_tags, tag_synonyms, TRUE)
              = <<DefaultTag>>
    /\ \A t \in 1..Len(tasks) :
          (tasks[t].pc # "extract" /\ Candidates(tasks[t].text) # <<>>)
              => tasks[t].tags # <<>>

----------------------------------------------------------------------------
(* Claims about calls of the tagging pipeline *)

\* the canonical name of a candidate: trimmed, '#'-less, lower-cased
CanonicalName(candidate) == ToLowerCase(StripHashes(Trim(candidate)))

\* what a candidate resolves to: its entry's betterTag when its canonical
\* name has an entry, itself otherwise
ResolvedOnce(candidate) ==
    LET name == CanonicalName(candidate)
        entries == {row \in tag_synonyms : ToLowerCase(row.original_tag) = name}
    IN  IF entries = {} THEN Hash \o name
        ELSE Hash \o (CHOOSE row \in entries : TRUE).better_tag

\* C13: the resolver's result holds, for every candidate that is not blocked
\* and whose canonical name has an entry, that entry's betterTag, substituted
\* once and never looked up again.
C13_OneLevelSubstitution ==
    (returned.fn = "processHashtags" /\ returned.dbOk) =>
        \A i \in 1..Len(returned.input) :
            LET name == CanonicalName(returned.input[i])
                entries == {row \in tag_synonyms :
                               ToLowerCase(row.original_tag) = name}
            IN  (entries # {} /\ name \notin returned.blocked) =>
                    ResolvedOnce(returned.input[i]) \in Range(returned.tags)

\* a candidate trimmed and prefixed with '#'
Prefixed(candidate) ==
    LET trimmed == Trim(candidate)
    IN  IF StartsWithHash(trimmed) THEN trimmed ELSE Hash \o trimmed

\* the resolver has returned from a call whose queries failed
ResolvedAfterFailure == returned.fn = "processHashtags" /\ ~returned.dbOk

\* C14: when a query fails the resolver returns, in input order, every
\* candidate that is more than a bare '#' once trimmed and prefixed, with no
\* blocked-tag filtering, no synonym substitution and no case folding.
C14_FailureReturnsCandidates ==
    ResolvedAfterFailure =>
        returned.tags = SelectSeq(SeqMap(Prefixed, returned.input),
                                  LAMBDA tag : tag # Hash)

\* C14 as stated: when a query fails the resolver returns every candidate,
\* trimmed and prefixed.
C14_EveryCandidateReturned ==
    ResolvedAfterFailure =>
        returned.tags = SeqMap(Prefixed, returned.input)

\* C14 witness: the queries failed with js blocked and js -> javascript
\* present, and ["JS ", "#js"] came back as [#JS, #js].
C14_Witness ==
    /\ ResolvedAfterFailure
    /\ returned.input = <<CandidateUpper, CandidateJs>>
    /\ returned.tags = <<Hash \o <<"J", "S">>, CandidateJs>>
    /\ <<"j", "s">> \in returned.blocked
    /\ \E row \in tag_synonyms : row.original_tag = <<"j", "s">>

\* the assistant rows persisted for the text of finalization t
PersistedFor(t) ==
    {i \in 1..Len(ollama_responses) :
        /\ ollama_responses[i].message_id = MessageId
        /\ ollama_responses[i].session_id = SessionId
        /\ ollama_responses[i].content = tasks[t].text}

\* the tags of a finalization are those extractHashtags yields for the whole
\* text handed to it, and neither changes afterwards
ExtractedFromWholeText ==
    \A t \in 1..Len(tasks) :
        /\ (tasks[t].pc = "extract" /\ tasks'[t].pc # "extract") =>
              \E readOk, dbOk \in BOOLEAN :
                  tasks'[t].tags = extractHashtags(tasks[t].text, DefaultMaxTags,
                                                  blocked_tags, tag_synonyms,
                                                  readOk, dbOk)
        /\ tasks[t].pc # "extract" =>
              tasks'[t].tags = tasks[t].tags /\ tasks'[t].text = tasks[t].text

\* each finished finalization has sent one terminal notification with its
\* tag list, and every assistant row of the turn holds the tag list of a
\* finalization that has saved
PersistedAsSent ==
    \A tagList \in {tasks[t].tags : t \in 1..Len(tasks)}
                   \cup {emitted[i].hashtags :
                           i \in {k \in 1..Len(emitted) : IsTerminal(emitted[k])}}
                   \cup {ollama_responses[r].tags :
                           r \in {k \in 1..Len(ollama_responses) :
                                     ollama_responses[k].message_id = MessageId}} :
       /\ Cardinality({i \in 1..Len(emitted) :
                          IsTerminal(emitted[i]) /\ emitted[i].hashtags = tagList})
             = Cardinality({t \in 1..Len(tasks) :
                              tasks[t].pc = "finished" /\ tasks[t].tags = tagList})
       /\ Cardinality({r \in 1..Len(ollama_responses) :
                          /\ ollama_responses[r].message_id = MessageId
                          /\ ollama_responses[r].tags = tagList})
             <= Cardinality({t \in 1..Len(tasks) :
                               /\ tasks[t].pc \in {"activity", "emit", "finished"}
                               /\ tasks[t].tags = tagList})

\* C15: the tags of a finalization are extracted from the whole text handed
\* to it, and the list persisted with the assistant message is the list the
\* terminal notification carries.
C15_PersistedTagsAreTerminalTags ==
    []PersistedAsSent /\ [][ExtractedFromWholeText]_vars

\* C15 witness: a finalization ended with a tag list that is not empty, is
\* persisted with the assistant message and was sent with the terminal
\* notification.
C15_Witness ==
    \E t \in 1..Len(tasks) :
        /\ tasks[t].pc = "finished"
        /\ tasks[t].tags # <<>>
        /\ \E r \in PersistedFor(t) : ollama_responses[r].tags = tasks[t].tags
        /\ \E i \in 1..Len(emitted) :
              IsTerminal(emitted[i]) /\ emitted[i].hashtags = tasks[t].tags

\* findRelatedConversation has returned
RelatedReturned == returned.fn = "findRelatedConversation"

\* the message_log rows of another session that carry a tag searched for
MatchingElsewhere ==
    {i \in 1..Len(message_log) :
        /\ message_log[i].session_id # SessionId
        /\ MatchesTags(message_log[i], SearchTags(returned.input))}

\* C16: findRelatedConversation returns only conversations of sessions other
\* than the one given, at most limit of them, and never two for the same
\* matching message.
C16_OtherSessionsBoundedDistinct ==
    RelatedReturned =>
        /\ Len(returned.tags) <= returned.maxTags
        /\ \A i \in 1..Len(returned.tags) :
              /\ returned.tags[i].sessionId # SessionId
              /\ returned.tags[i].matched \in MatchingElsewhere
        /\ \A i, j \in 1..Len(returned.tags) :
              i # j => message_log[returned.tags[i].matched].message_id
                         # message_log[returned.tags[j].matched].message_id

\* C16 witness: with limit 1, a matching row in the session given and two
\* matching rows of one message in another session, one conversation of the
\* other session came back.
C16_Witness ==
    /\ RelatedReturned
    /\ returned.maxTags = 1
    /\ Len(returned.tags) = 1
    /\ \E i \in 1..Len(message_log) :
          /\ message_log[i].session_id = SessionId
          /\ MatchesTags(message_log[i], SearchTags(returned.input))
    /\ \E i, j \in MatchingElsewhere :
          i # j /\ message_log[i].message_id = message_log[j].message_id

\* no row of another session carries one of the tags searched for
NoMatchElsewhere(userHashtags) ==
    \A i \in 1..Len(message_log) :
        \/ message_log[i].session_id = SessionId
        \/ ~MatchesTags(message_log[i], SearchTags(userHashtags))

\* C17: when no message of another session carries a tag of the new message,
\* or the related-conversation lookup fails, or the tagging step of the turn
\* fails, the prompt of the request is exactly the message, and the request
\* is sent without an error notification unless the backend refuses it.
C17_PromptUnmodifiedWithoutContext ==
    [][(request.state = "none" /\ request'.state \in {"sent", "refused"}) =>
         \A message \in {user_messages'[Len(user_messages')].content},
            backendOk \in {request'.state = "sent"} :
             \/ /\ request'.prompt = message
                /\ backendOk => Count(emitted', IsError) = Count(emitted, IsError)
             \/ \A dbOk \in BOOLEAN, updated \in 0..2, lookupOk \in BOOLEAN,
                   pick \in 1..Len(generalTags) :
                    ~ ( /\ \/ updated < 2
                           \/ ~lookupOk
                           \/ NoMatchElsewhere(generateUserMessageHashtags(
                                  message, DefaultMaxTags, blocked_tags,
                                  tag_synonyms, dbOk, pick))
                        /\ UserTurn(message, TRUE, dbOk, updated, lookupOk,
                                    backendOk, pick) )]_vars

\* C17 witness: the tags of the message were sent to the client, a message
\* of another session carries one of them, and the request was sent with the
\* message alone as its prompt (the lookup failed).
C17_Witness ==
    /\ returned.fn = "generateUserMessageHashtags"
    /\ request.state = "sent"
    /\ request.prompt = returned.input
    /\ \E i \in 1..Len(emitted) : emitted[i] = UserHashtagsEvent(returned.tags)
    /\ ~NoMatchElsewhere(returned.tags)
    /\ Count(emitted, IsError) = 0

\* C18: the lists returned by generateUserMessageHashtags(message, maxTags)
\* and extractHashtags(response, maxTags) never hold more than maxTags
\* entries.
C18_AtMostMaxTags ==
    returned.fn \in {"generateUserMessageHashtags", "extractHashtags"} =>
        Len(returned.tags) <= returned.maxTags

----------------------------------------------------------------------------
(* Claims about the stored tag lists *)

\* no two entries of a tag list are equal up to case
NoCaseDuplicates(tagList) ==
    \A i, j \in 1..Len(tagList) :
        i # j => ToLowerCase(tagList[i]) # ToLowerCase(tagList[j])

\* C19: the tag list of every persisted message is free of case-insensitive
\* duplicates after any sequence of save, add-tag and remove-tag operations.
C19_NoCaseDuplicatesStored ==
    /\ \A i \in 1..Len(user_messages) : NoCaseDuplicates(user_messages[i].tags)
    /\ \A i \in 1..Len(ollama_responses) : NoCaseDuplicates(ollama_responses[i].tags)
    /\ \A i \in 1..Len(message_log) : NoCaseDuplicates(message_log[i].tags)

\* the usage count of a tag name in a tags table, 0 when it has no row
UsageOf(table, tagName) == IF tagName \in DOMAIN table THEN table[tagName] ELSE 0

\* the tags table as it was before the turn
TagsBefore ==
    IF \E i \in 1..Len(message_log) : message_log[i].session_id = OtherSession
    THEN OtherTags ELSE <<>>

\* the tag lists of the turn's user message and assistant message
TurnUserTags ==
    {user_messages[i].tags : i \in {k \in 1..Len(user_messages) :
                                       user_messages[k].message_id = MessageId}}
TurnAssistantTags ==
    {ollama_responses[i].tags : i \in {k \in 1..Len(ollama_responses) :
                                          ollama_responses[k].message_id = MessageId}}

\* the turn is complete: the user message is saved and tagged, the response
\* is persisted and its terminal notification sent
TurnComplete ==
    /\ request.state = "sent"
    /\ TurnUserTags # {}
    /\ \E i \in 1..Len(emitted) : emitted[i].event = "userHashtags"
    /\ TurnAssistantTags # {}
    /\ \E t \in 1..Len(tasks) : tasks[t].pc = "finished"

\* the number of lists among `lists` that carry the tag name
Carrying(lists, tagName) ==
    Cardinality({tagList \in lists :
                    \E i \in 1..Len(tagList) :
                        ToLowerCase(StripOneHash(tagList[i])) = tagName})

\* C20: after a complete turn the usage count of every tag of the user
\* message and of the assistant message has grown by one for each of the two
\* messages that carries it, and the assistant message has a tag.
C20_UsageCountedPerMessage ==
    TurnComplete =>
        /\ \A tagList \in TurnUserTags \cup TurnAssistantTags :
              \A i \in 1..Len(tagList) :
                  LET tagName == ToLowerCase(StripOneHash(tagList[i]))
                  IN  UsageOf(tags, tagName) =
                          UsageOf(TagsBefore, tagName)
                          + Carrying(TurnUserTags, tagName)
                          + Carrying(TurnAssistantTags, tagName)
        /\ \A tagList \in TurnAssistantTags : tagList # <<>>

----------------------------------------------------------------------------
(* Claims about normalization and de-duplication *)

\* the name of a string: without its leading '#'s and surrounding white
\* space, lower-cased
NameOf(s) == ToLowerCase(Trim(StripHashes(Trim(s))))

\* exactly one '#' followed by a name that neither is empty nor starts or ends
\* with white space
WellFormedTag(tag) ==
    /\ Len(tag) > 1
    /\ tag[1] = "#"
    /\ tag[2] # "#"
    /\ tag[2] \notin WhiteSpace
    /\ tag[Len(tag)] \notin WhiteSpace

\* C21: formatHashtags is idempotent, each tag it returns is one '#' followed
\* by a non-empty name without surrounding white space, and two inputs with
\* the same name (ignoring case, surrounding white space and leading '#'s)
\* normalize to tags equal up to case.
C21_NormalizationIdempotent ==
    returned.fn = "formatHashtags" =>
        /\ formatHashtags(returned.tags) = returned.tags
        /\ \A i \in 1..Len(returned.tags) : WellFormedTag(returned.tags[i])
        /\ \A i, j \in 1..Len(returned.input) :
              (NameOf(returned.input[i]) = NameOf(returned.input[j])
                  /\ NameOf(returned.input[i]) # <<>>) =>
                  ToLowerCase(FormatTag(returned.input[i]))
                      = ToLowerCase(FormatTag(returned.input[j]))

\* what the k-th candidate of the call resolves to on its own with nothing
\* blocked, <<>> for a candidate that is no tag
Survivor(k) == processHashtags(<<returned.input[k]>>, {}, tag_synonyms, TRUE)

\* the candidates of the call that are tags and are not blocked
KeptCandidates ==
    {k \in 1..Len(returned.input) :
        /\ Survivor(k) # <<>>
        /\ CleanTag(NormalizeTag(returned.input[k]))
              \notin BlockedNames(returned.blocked)}

\* those of them that no earlier one equals, up to case, once resolved
FirstOccurrences ==
    {k \in KeptCandidates :
        \A m \in KeptCandidates :
            m < k => ToLowerCase(Survivor(m)[1]) # ToLowerCase(Survivor(k)[1])}

\* C22: when its queries succeed the resolver returns no two tags equal up
\* to case, compared after synonym substitution, and the tags that survive
\* stand in the order of their first occurrence in the input.
C22_DedupedInFirstSeenOrder ==
    (returned.fn = "processHashtags" /\ returned.dbOk) =>
        /\ \A i, j \in 1..Len(returned.tags) :
              i # j => ToLowerCase(returned.tags[i]) # ToLowerCase(returned.tags[j])
        /\ FirstOccurrences # {} =>
              /\ Len(returned.tags) = Cardinality(FirstOccurrences)
              /\ \A k \in FirstOccurrences :
                    returned.tags[Cardinality({m \in FirstOccurrences : m <= k})]
                        = Survivor(k)[1]

\* C22 witness: with js -> javascript, [#js, #javascript] resolved to the
\* single tag #javascript.
C22_Witness ==
    /\ returned.fn = "processHashtags"
    /\ returned.dbOk
    /\ returned.input = <<CandidateJs, CandidateLong>>
    /\ returned.tags = <<CandidateLong>>
    /\ \E row \in tag_synonyms :
          row.original_tag = <<"j", "s">> /\ row.better_tag = Javascript

(* Claims about the end of a generation *)

\* the client was sent a terminal notification or an error notification
Notified == \E i \in 1..Len(emitted) : IsTerminal(emitted[i]) \/ IsError(emitted[i])

\* C23: every generation whose backend request was started eventually ends
\* with a terminal notification or an error notification to the client, also
\* when the backend closes the stream without a terminal record or with a
\* last record that no newline follows.
C23_GenerationEventuallyEnds == (request.state = "sent") ~> Notified

(* Claims about the tag preview *)

IsPreview(e) == e.event = "streamingHashtags"

\* C24: a preliminary tag update (streamingHashtags, final=false) of a
\* generation is never emitted after the generation's terminal notification,
\* however the answer of the preview extraction interleaves with the stream
\* events and the finalization.
C24_NoPreviewAfterTerminal ==
    \A i, j \in 1..Len(emitted) :
        (IsTerminal(emitted[i]) /\ IsPreview(emitted[j])
            /\ emitted[i].messageId = emitted[j].messageId) => j < i

(* Claims about the two copies of an assistant message's tags *)

\* C25: for every assistant message the tag list stored in ollama_responses
\* and the one stored in its message_log row are equal after any sequence of
\* add-tag, remove-tag and block-tag operations on the message.
C25_TagCopiesAgree ==
    \A i \in 1..Len(ollama_responses), j \in 1..Len(message_log) :
        (/\ message_log[j].message_id = ollama_responses[i].message_id
         /\ message_log[j].origin = "assistant")
            => message_log[j].tags = ollama_responses[i].tags

(* Claims about tag mutations that interleave *)

\* the tags of the assistant message of the requests, as ollama_responses
\* holds them
MutatedTags ==
    SelectSeq(ollama_responses, LAMBDA row : row.message_id = MessageId)[1].tags

\* the names of a list of tags: no leading '#', lower case
TagNames(tagList) == {ToLowerCase(StripOneHash(tagList[i])) : i \in 1..Len(tagList)}

AllSettled == \A o \in DOMAIN ops : ops[o].pc \in {"done", "rejected"}

\* C26: two tag mutations of one message that interleave both take effect:
\* when both have completed the stored list holds every tag an add-tag
\* request added and no tag a remove-tag request removed.
C26_InterleavedMutationsBothApply ==
    AllSettled =>
        \A o \in DOMAIN ops :
            /\ (ops[o].kind = "addTag" /\ ops[o].pc = "done")
                  => ToLowerCase(StripOneHash(ops[o].tag)) \in TagNames(MutatedTags)
            /\ (ops[o].kind = "removeTag" /\ ops[o].pc = "done")
                  => ToLowerCase(StripOneHash(ops[o].tag)) \notin TagNames(MutatedTags)

(* Claims about sessions *)

\* C27: once the session check of streamCompletion is over, a session row
\* whose id is the sessionId it was called with exists before the user
\* message is saved, also when streamCompletion is reached through userMessage.
C27_SessionExistsBeforeSave ==
    \A o \in DOMAIN ops :
        ops[o].pc \in {"save", "saved"} => HasSession(ops[o].sessionId)

\* the calls of createOrValidateSession that have returned or thrown
Validated == {o \in DOMAIN ops : ops[o].kind = "sendMessage"
                                  /\ ops[o].pc \notin {"start", "touch", "insert"}}

\* C28: createOrValidateSession is safe when two calls for one session id
\* that does not exist yet interleave: both return successfully and exactly
\* one session row with that id exists afterwards.
C28_ConcurrentValidationSucceeds ==
    \A o \in Validated :
        /\ ops[o].pc # "sessionError"
        /\ Cardinality({row \in sessions : row.id = ops[o].sessionId}) = 1

(* Claims about the transactions of the save operations *)

\* the rows of a table that the save of call o has written
RowsOf(rows, o) == SelectSeq(rows, LAMBDA row : row.message_id = ops[o].messageId)

\* the table of the message row of call o
MessageTableOf(o) ==
    IF ops[o].kind = "saveUserMessage" THEN user_messages ELSE ollama_responses

\* how often the calls that have not thrown have upserted the tag `name`
UpsertsOf(name) ==
    Cardinality({c \in {<<o, k>> : o \in DOMAIN ops, k \in 1..MaxSaveTags} :
                    /\ c[2] <= Len(ops[c[1]].counted \o ops[c[1]].kept)
                    /\ ops[c[1]].pc # "thrown"
                    /\ (ops[c[1]].counted \o ops[c[1]].kept)[c[2]] = name})

\* C29: saveUserMessage and saveOllamaResponse are all-or-nothing: a save
\* that has thrown has left neither of its rows nor any increment of a tag's
\* usage count, and a save that has returned has left both rows with the same
\* message id, content and tag list.
C29_SaveAllOrNothing ==
    /\ \A o \in DOMAIN ops :
          /\ ops[o].pc = "thrown" =>
                /\ RowsOf(user_messages, o) = <<>>
                /\ RowsOf(ollama_responses, o) = <<>>
                /\ RowsOf(message_log, o) = <<>>
          /\ ops[o].pc = "returned" =>
                /\ Len(RowsOf(MessageTableOf(o), o)) = 1
                /\ Len(RowsOf(message_log, o)) = 1
                /\ RowsOf(MessageTableOf(o), o)[1].content = ops[o].content
                /\ RowsOf(message_log, o)[1].content = ops[o].content
                /\ RowsOf(MessageTableOf(o), o)[1].tags = ops[o].hashtags
                /\ RowsOf(message_log, o)[1].tags = ops[o].hashtags
    /\ (\A o \in DOMAIN ops : ops[o].pc \in {"thrown", "returned"}) =>
          /\ \A name \in DOMAIN tags : tags[name] = UpsertsOf(name)
          /\ \A name \in {<<"s", "q", "l">>, <<"c", "s", "s">>} :
                UpsertsOf(name) > 0 => name \in DOMAIN tags

(* Claims about generations in flight together *)

\* the fragments and terminal notifications the client was sent under the
\* messageId of call g, in order
ChunksOf(g) ==
    SelectSeq(emitted, LAMBDA e : e.event = "messageChunk"
                                  /\ e.messageId = GenMessageId(g))

\* C30: with two generations in flight on one socket the streaming states
\* are independent: every fragment and terminal notification carries the
\* messageId of the generation whose stream produced it, each generation's
\* accumulated text and parse buffer hold data of its own stream only, and
\* the fragments of each generation keep their order, however the data
\* events of the two streams interleave.
C30_GenerationsIndependent ==
    /\ \A i \in 1..Len(emitted) :
          emitted[i].event = "messageChunk"
              => \E g \in DOMAIN gens : emitted[i].messageId = GenMessageId(g)
    /\ \A g \in DOMAIN gens :
          /\ Fragments(ChunksOf(g)) = ExpectedFragments(gens[g].received)
          /\ gens[g].fullResponse = Concat(ExpectedFragments(gens[g].received))
          /\ gens[g].chunkCount = Len(ExpectedFragments(gens[g].received))
          /\ gens[g].buffer = Unterminated(gens[g].received)
          /\ Count(ChunksOf(g), IsTerminal)
                = Count(gens[g].tasks, LAMBDA task : task.pc = "finished")
          /\ \A t \in 1..Len(gens[g].tasks) :
                gens[g].tasks[t].text
                    = Concat(ExpectedFragments(gens[g].received))

\* C30 witness: a fragment of the second generation was sent between two
\* fragments of the first, the first generation's buffer holding the start
\* of a record, and both generations went on to their terminal notification.
C30_Witness ==
    /\ DOMAIN gens = Generations
    /\ \E i, j, k \in 1..Len(emitted) :
          /\ i < j /\ j < k
          /\ IsFragment(emitted[i]) /\ emitted[i].messageId = GenMessageId(1)
          /\ IsFragment(emitted[j]) /\ emitted[j].messageId = GenMessageId(2)
          /\ IsFragment(emitted[k]) /\ emitted[k].messageId = GenMessageId(1)
    /\ \A g \in Generations : Count(ChunksOf(g), IsTerminal) = 1

============================================================================
